---------------------------- MODULE Spec2Model ----------------------------
(***************************************************************************)
(* Layered configuration loader of config_reader (src/config_reader/src/   *)
(* main.rs): defaults, file source, environment source, argument source,   *)
(* merger, validator and the orchestrator that chains them.                *)
(*                                                                         *)
(* Text (Rust String) is a sequence of one-character strings, so that      *)
(* parsing, prefix tests and case conversion are computed character by     *)
(* character.  Option<T> is <<>> (None) or <<v>> (Some(v)).  Result<T, E>  *)
(* is a record with an ok flag.                                            *)
(***************************************************************************)
EXTENDS Integers, Sequences, FiniteSets, TLC

(***************************************************************************)
(* Bounds of the model.                                                    *)
(***************************************************************************)
\* at most this many APP_* variables and field flags are set, together, in one run
MaxSettings == 2
\* at most this many keys are in the features map of an argument of a merge on its own
MaxFeatureKeys == 2

(***************************************************************************)
(* Text literals of the source.                                            *)
(***************************************************************************)
Str_127_0_0_1 == <<"1", "2", "7", ".", "0", ".", "0", ".", "1">>
Str_localhost == <<"l", "o", "c", "a", "l", "h", "o", "s", "t">>
Str_postgres == <<"p", "o", "s", "t", "g", "r", "e", "s">>
Str_myapp == <<"m", "y", "a", "p", "p">>
Str_info == <<"i", "n", "f", "o">>
Str_app_log == <<"a", "p", "p", ".", "l", "o", "g">>
Str_debug_mode == <<"d", "e", "b", "u", "g", "_", "m", "o", "d", "e">>
Str_metrics == <<"m", "e", "t", "r", "i", "c", "s">>
Str_cache == <<"c", "a", "c", "h", "e">>
Str_debug == <<"d", "e", "b", "u", "g">>
Str_warn == <<"w", "a", "r", "n">>
Str_error == <<"e", "r", "r", "o", "r">>
Str_toml == <<"t", "o", "m", "l">>
Str_json == <<"j", "s", "o", "n">>
Str_yaml == <<"y", "a", "m", "l">>
Str_yml == <<"y", "m", "l">>
Str_true == <<"t", "r", "u", "e">>
Str_false == <<"f", "a", "l", "s", "e">>
APP_SERVER_HOST == <<"A", "P", "P", "_", "S", "E", "R", "V", "E", "R", "_", "H", "O", "S", "T">>
APP_SERVER_PORT == <<"A", "P", "P", "_", "S", "E", "R", "V", "E", "R", "_", "P", "O", "R", "T">>
APP_SERVER_WORKERS == <<"A", "P", "P", "_", "S", "E", "R", "V", "E", "R", "_", "W", "O", "R", "K", "E", "R", "S">>
APP_DATABASE_HOST == <<"A", "P", "P", "_", "D", "A", "T", "A", "B", "A", "S", "E", "_", "H", "O", "S", "T">>
APP_DATABASE_PORT == <<"A", "P", "P", "_", "D", "A", "T", "A", "B", "A", "S", "E", "_", "P", "O", "R", "T">>
APP_DATABASE_USERNAME == <<"A", "P", "P", "_", "D", "A", "T", "A", "B", "A", "S", "E", "_", "U", "S", "E", "R", "N", "A", "M", "E">>
APP_DATABASE_PASSWORD == <<"A", "P", "P", "_", "D", "A", "T", "A", "B", "A", "S", "E", "_", "P", "A", "S", "S", "W", "O", "R", "D">>
APP_DATABASE_DATABASE == <<"A", "P", "P", "_", "D", "A", "T", "A", "B", "A", "S", "E", "_", "D", "A", "T", "A", "B", "A", "S", "E">>
APP_DATABASE_MAX_CONNECTIONS == <<"A", "P", "P", "_", "D", "A", "T", "A", "B", "A", "S", "E", "_", "M", "A", "X", "_", "C", "O", "N", "N", "E", "C", "T", "I", "O", "N", "S">>
APP_LOGGING_LEVEL == <<"A", "P", "P", "_", "L", "O", "G", "G", "I", "N", "G", "_", "L", "E", "V", "E", "L">>
APP_LOGGING_FILE == <<"A", "P", "P", "_", "L", "O", "G", "G", "I", "N", "G", "_", "F", "I", "L", "E">>
APP_FEATURES_ == <<"A", "P", "P", "_", "F", "E", "A", "T", "U", "R", "E", "S", "_">>
Str_empty == <<>>

(***************************************************************************)
(* Option and Result.                                                      *)
(***************************************************************************)
None == <<>>
Some(v) == <<v>>
is_some(o) == o # <<>>
unwrap(o) == o[1]

Ok(v) == [ok |-> TRUE, val |-> v]
Err(kind, msg) == [ok |-> FALSE, kind |-> kind, msg |-> msg]
is_ok(r) == r.ok
is_err(r) == ~r.ok

(***************************************************************************)
(* str::is_empty, str::starts_with, str::strip_prefix, str::to_lowercase.  *)
(***************************************************************************)
is_empty(s) == Len(s) = 0

starts_with(s, prefix) ==
    /\ Len(s) >= Len(prefix)
    /\ SubSeq(s, 1, Len(prefix)) = prefix

strip_prefix(s, prefix) ==
    IF starts_with(s, prefix) THEN Some(SubSeq(s, Len(prefix) + 1, Len(s))) ELSE None

UpperChars == <<"A", "B", "C", "D", "E", "F", "G", "H", "I", "J", "K", "L", "M",
                "N", "O", "P", "Q", "R", "S", "T", "U", "V", "W", "X", "Y", "Z">>
LowerChars == <<"a", "b", "c", "d", "e", "f", "g", "h", "i", "j", "k", "l", "m",
                "n", "o", "p", "q", "r", "s", "t", "u", "v", "w", "x", "y", "z">>

char_to_lowercase(c) ==
    IF \E i \in 1..Len(UpperChars) : UpperChars[i] = c
    THEN LowerChars[CHOOSE i \in 1..Len(UpperChars) : UpperChars[i] = c]
    ELSE c

to_lowercase(s) == [i \in 1..Len(s) |-> char_to_lowercase(s[i])]

(***************************************************************************)
(* str::parse for the unsigned integer types (u16 for the ports, u32 for   *)
(* workers and max_connections) and for bool.  An optional leading "+" is  *)
(* accepted, a lone sign, an empty text and any non-digit are errors, and  *)
(* each digit is accumulated with an overflow check against the type's     *)
(* maximum, given as (max div 10, max mod 10).  None is the Err case.      *)
(***************************************************************************)
DigitChars == <<"0", "1", "2", "3", "4", "5", "6", "7", "8", "9">>
is_digit(c) == \E i \in 1..Len(DigitChars) : DigitChars[i] = c
to_digit(c) == (CHOOSE i \in 1..Len(DigitChars) : DigitChars[i] = c) - 1

U16_MAX == 65535
U16_MAX_DIV10 == 6553
U16_MAX_MOD10 == 5
U32_MAX_DIV10 == 429496729
U32_MAX_MOD10 == 5

RECURSIVE parse_digits(_, _, _, _)
parse_digits(acc, digits, maxDiv10, maxMod10) ==
    IF digits = <<>> THEN Some(acc)
    ELSE IF ~is_digit(Head(digits)) THEN None
    ELSE LET d == to_digit(Head(digits))
         IN  IF acc > maxDiv10 \/ (acc = maxDiv10 /\ d > maxMod10)
             THEN None
             ELSE parse_digits(acc * 10 + d, Tail(digits), maxDiv10, maxMod10)

parse_unsigned(s, maxDiv10, maxMod10) ==
    IF s = <<>> THEN None
    ELSE IF Len(s) = 1 /\ s[1] \in {"+", "-"} THEN None
    ELSE IF s[1] = "+" THEN parse_digits(0, Tail(s), maxDiv10, maxMod10)
    ELSE parse_digits(0, s, maxDiv10, maxMod10)

\* faulty variant: the text is read as a wider integer and cut to sixteen bits
parse_u16_wraps(s) ==
    LET wide == parse_unsigned(s, U32_MAX_DIV10, U32_MAX_MOD10)
    IN  IF is_some(wide) THEN Some(unwrap(wide) % 65536) ELSE None

parse_u16(s) == parse_unsigned(s, U16_MAX_DIV10, U16_MAX_MOD10)
parse_u32(s) == parse_unsigned(s, U32_MAX_DIV10, U32_MAX_MOD10)

parse_bool(s) ==
    IF s = Str_true THEN Some(TRUE)
    ELSE IF s = Str_false THEN Some(FALSE)
    ELSE None

(***************************************************************************)
(* HashMap<String, bool> is a function from keys to BOOLEAN.               *)
(***************************************************************************)
HashMap_new == <<>>
insert(map, key, value) ==
    [k \in (DOMAIN map) \cup {key} |-> IF k = key THEN value ELSE map[k]]

(***************************************************************************)
(* AppConfig, ServerConfig, DatabaseConfig, LoggingConfig.                 *)
(***************************************************************************)
ServerConfig(host, port, workers) ==
    [host |-> host, port |-> port, workers |-> workers]
DatabaseConfig(host, port, username, password, database, max_connections) ==
    [host |-> host, port |-> port, username |-> username, password |-> password,
     database |-> database, max_connections |-> max_connections]
LoggingConfig(level, file) == [level |-> level, file |-> file]
AppConfig(server, database, logging, features) ==
    [server |-> server, database |-> database, logging |-> logging,
     features |-> features]

(***************************************************************************)
(* create_default_config                                                   *)
(***************************************************************************)
DefaultServerPort == 8080
DefaultServerWorkers == 4
DefaultDatabasePort == 5432
DefaultMaxConnections == 10

\* faulty variant: the default worker count is zero
create_default_config_zero_workers ==
    LET features == insert(insert(insert(HashMap_new, Str_debug_mode, FALSE),
                                  Str_metrics, TRUE),
                           Str_cache, TRUE)
    IN  AppConfig(
            ServerConfig(Str_127_0_0_1, DefaultServerPort, Some(0)),
            DatabaseConfig(Str_localhost, DefaultDatabasePort, Str_postgres, Str_empty,
                           Str_myapp, Some(DefaultMaxConnections)),
            LoggingConfig(Str_info, Some(Str_app_log)),
            features)

create_default_config ==
    LET features == insert(insert(insert(HashMap_new, Str_debug_mode, FALSE),
                                  Str_metrics, TRUE),
                           Str_cache, TRUE)
    IN  AppConfig(
            ServerConfig(Str_127_0_0_1, DefaultServerPort, Some(DefaultServerWorkers)),
            DatabaseConfig(Str_localhost, DefaultDatabasePort, Str_postgres, Str_empty,
                           Str_myapp, Some(DefaultMaxConnections)),
            LoggingConfig(Str_info, Some(Str_app_log)),
            features)

(***************************************************************************)
(* merge_configs(base, overrides)                                          *)
(***************************************************************************)
RECURSIVE insert_all(_, _, _)
\* for (key, value) in overrides.features { merged.features.insert(key, value) }
insert_all(map, from, keys) ==
    IF keys = {} THEN map
    ELSE LET key == CHOOSE k \in keys : TRUE
         IN  insert_all(insert(map, key, from[key]), from, keys \ {key})

\* faulty variant: workers is assigned like a required field
merge_server_assigns_workers(base, overrides) ==
    ServerConfig(overrides.server.host, overrides.server.port, overrides.server.workers)

merge_server(base, overrides) ==
    ServerConfig(overrides.server.host,
                 overrides.server.port,
                 IF is_some(overrides.server.workers)
                 THEN overrides.server.workers ELSE base.server.workers)

\* faulty variant: max_connections is assigned like a required field
merge_database_assigns_max_connections(base, overrides) ==
    DatabaseConfig(overrides.database.host,
                   overrides.database.port,
                   overrides.database.username,
                   overrides.database.password,
                   overrides.database.database,
                   overrides.database.max_connections)

merge_database(base, overrides) ==
    DatabaseConfig(overrides.database.host,
                   overrides.database.port,
                   overrides.database.username,
                   overrides.database.password,
                   overrides.database.database,
                   IF is_some(overrides.database.max_connections)
                   THEN overrides.database.max_connections
                   ELSE base.database.max_connections)

\* faulty variant: the assignment of logging.level is missing
merge_logging_keeps_level(base, overrides) ==
    LoggingConfig(base.logging.level,
                  IF is_some(overrides.logging.file)
                  THEN overrides.logging.file ELSE base.logging.file)

merge_logging(base, overrides) ==
    LoggingConfig(overrides.logging.level,
                  IF is_some(overrides.logging.file)
                  THEN overrides.logging.file ELSE base.logging.file)

\* faulty variant: only the keys the base already has are updated
merge_features_updates_known_keys(base, overrides) ==
    [k \in DOMAIN base.features |->
        IF k \in DOMAIN overrides.features
        THEN overrides.features[k] ELSE base.features[k]]

\* faulty variant: the map is assigned instead of inserted into
merge_features_assigns(base, overrides) == overrides.features

merge_features(base, overrides) ==
    insert_all(base.features, overrides.features, DOMAIN overrides.features)

merge_configs(base, overrides) ==
    AppConfig(merge_server(base, overrides),
              merge_database(base, overrides),
              merge_logging(base, overrides),
              merge_features(base, overrides))

(***************************************************************************)
(* validate_config: the first failing check decides the error; the         *)
(* warning is written to the standard error stream and does not fail.      *)
(***************************************************************************)
valid_levels == {Str_debug, Str_info, Str_warn, Str_error}

ValidationError(msg) == Err("ValidationError", msg)

\* faulty variant: the number of workers is not checked
validate_server_accepts_zero_workers(config) ==
    IF is_empty(config.server.host)
    THEN ValidationError(<<"Server host cannot be empty">>)
    ELSE IF config.server.port = 0
    THEN ValidationError(<<"Server port must be greater than 0">>)
    ELSE Ok(<<>>)

validate_server(config) ==
    IF is_empty(config.server.host)
    THEN ValidationError(<<"Server host cannot be empty">>)
    ELSE IF config.server.port = 0
    THEN ValidationError(<<"Server port must be greater than 0">>)
    ELSE IF is_some(config.server.workers) /\ unwrap(config.server.workers) = 0
    THEN ValidationError(<<"Server workers must be greater than 0">>)
    ELSE Ok(<<>>)

\* faulty variant: an empty password is an error instead of a warning
validate_database_rejects_empty_password(config) ==
    IF is_empty(config.database.host)
    THEN ValidationError(<<"Database host cannot be empty">>)
    ELSE IF config.database.port = 0
    THEN ValidationError(<<"Database port must be greater than 0">>)
    ELSE IF is_empty(config.database.username)
    THEN ValidationError(<<"Database username cannot be empty">>)
    ELSE IF is_empty(config.database.password)
    THEN ValidationError(<<"Database password cannot be empty">>)
    ELSE IF is_empty(config.database.database)
    THEN ValidationError(<<"Database name cannot be empty">>)
    ELSE IF is_some(config.database.max_connections)
            /\ unwrap(config.database.max_connections) = 0
    THEN ValidationError(<<"Database max connections must be greater than 0">>)
    ELSE Ok(<<>>)

validate_database(config) ==
    IF is_empty(config.database.host)
    THEN ValidationError(<<"Database host cannot be empty">>)
    ELSE IF config.database.port = 0
    THEN ValidationError(<<"Database port must be greater than 0">>)
    ELSE IF is_empty(config.database.username)
    THEN ValidationError(<<"Database username cannot be empty">>)
    ELSE IF is_empty(config.database.database)
    THEN ValidationError(<<"Database name cannot be empty">>)
    ELSE IF is_some(config.database.max_connections)
            /\ unwrap(config.database.max_connections) = 0
    THEN ValidationError(<<"Database max connections must be greater than 0">>)
    ELSE Ok(<<>>)

\* faulty variant: the level is not checked
validate_logging_unchecked(config) == Ok(<<>>)

\* faulty variant: the level is compared without regard to letter case
validate_logging_ignores_case(config) ==
    IF to_lowercase(config.logging.level) \notin valid_levels
    THEN ValidationError(<<"Invalid logging level: ">> \o config.logging.level)
    ELSE Ok(<<>>)

validate_logging(config) ==
    IF config.logging.level \notin valid_levels
    THEN ValidationError(<<"Invalid logging level: ">> \o config.logging.level)
    ELSE Ok(<<>>)

\* faulty variant: the database section is checked before the server section
validate_config_database_first(config) ==
    IF is_err(validate_database(config)) THEN validate_database(config)
    ELSE IF is_err(validate_server(config)) THEN validate_server(config)
    ELSE validate_logging(config)

validate_config(config) ==
    IF is_err(validate_server(config)) THEN validate_server(config)
    ELSE IF is_err(validate_database(config)) THEN validate_database(config)
    ELSE validate_logging(config)

\* what validate_config writes with eprintln! (only reached when no check failed)
validate_config_warnings(config) ==
    IF is_ok(validate_config(config))
       /\ is_empty(config.database.password)
       /\ config.database.host # Str_localhost
    THEN <<"Warning: Empty database password used with non-localhost host">>
    ELSE <<>>

(***************************************************************************)
(* detect_format_from_extension.  Path::file_name is the last component of *)
(* the path: empty components (repeated or trailing "/") and "."           *)
(* components do not count, and there is none when the path ends in "..".  *)
(* Path::extension is the part of the file name after its last ".", and    *)
(* there is none when the file name has no "." or has its only "." in      *)
(* front (".toml").                                                        *)
(***************************************************************************)
last_index_of(s, c) ==
    IF \E i \in 1..Len(s) : s[i] = c
    THEN CHOOSE i \in 1..Len(s) : s[i] = c /\ \A j \in (i + 1)..Len(s) : s[j] # c
    ELSE 0

RECURSIVE split(_, _)
split(s, c) ==
    IF \E i \in 1..Len(s) : s[i] = c
    THEN LET i == last_index_of(s, c)
         IN  Append(split(SubSeq(s, 1, i - 1), c), SubSeq(s, i + 1, Len(s)))
    ELSE <<s>>

components(path) ==
    LET counts(part) == part # <<>> /\ part # <<".">>
    IN  SelectSeq(split(path, "/"), counts)

file_name(path) ==
    LET parts == components(path)
    IN  IF parts = <<>> \/ parts[Len(parts)] = <<".", ".">>
        THEN None
        ELSE Some(parts[Len(parts)])

extension(path) ==
    IF ~is_some(file_name(path)) THEN None
    ELSE LET name == unwrap(file_name(path))
             dot  == last_index_of(name, ".")
         IN  IF dot <= 1
             THEN None
             ELSE Some(SubSeq(name, dot + 1, Len(name)))

\* faulty variant: the extension is compared as it is spelled
detect_format_from_extension_as_spelled(file_path) ==
    LET ext == extension(file_path)
    IN  IF ~is_some(ext) THEN None
        ELSE LET ext_str == unwrap(ext)
             IN  IF ext_str = Str_toml THEN Some("Toml")
                 ELSE IF ext_str = Str_json THEN Some("Json")
                 ELSE IF ext_str \in {Str_yaml, Str_yml} THEN Some("Yaml")
                 ELSE None

detect_format_from_extension(file_path) ==
    LET ext == extension(file_path)
    IN  IF ~is_some(ext) THEN None
        ELSE LET ext_str == to_lowercase(unwrap(ext))
             IN  IF ext_str = Str_toml THEN Some("Toml")
                 ELSE IF ext_str = Str_json THEN Some("Json")
                 ELSE IF ext_str \in {Str_yaml, Str_yml} THEN Some("Yaml")
                 ELSE None

(***************************************************************************)
(* The decoders (toml::from_str, serde_json::from_str, serde_yaml::        *)
(* from_str) with the derived Deserialize of AppConfig.  A file's contents *)
(* are a document: well-formed or not in the syntax of its format, and a   *)
(* tree of the keys it gives.  Decoding fails on a document that is not    *)
(* well-formed, that lacks a required key (every key that is not an        *)
(* Option), or whose integer does not fit the field's type; an Option key  *)
(* that is missing decodes to None.                                        *)
(***************************************************************************)
RequiredKeys == {"server.host", "server.port", "database.host", "database.port",
                 "database.username", "database.password", "database.database",
                 "logging.level", "features"}

\* faulty variant: a missing key of an Option field decodes to a present value
optional_key_or_zero(tree, key) == IF key \in DOMAIN tree THEN Some(tree[key]) ELSE Some(0)

optional_key(tree, key) == IF key \in DOMAIN tree THEN Some(tree[key]) ELSE None

from_str(doc) ==
    LET tree == doc.tree
    IN  IF ~doc.wellformed THEN None
        ELSE IF ~(RequiredKeys \subseteq DOMAIN tree) THEN None
        ELSE IF tree["server.port"] \notin 0..U16_MAX THEN None
        ELSE IF tree["database.port"] \notin 0..U16_MAX THEN None
        ELSE IF "server.workers" \in DOMAIN tree /\ tree["server.workers"] < 0 THEN None
        ELSE IF "database.max_connections" \in DOMAIN tree
                /\ tree["database.max_connections"] < 0 THEN None
        ELSE Some(AppConfig(
                ServerConfig(tree["server.host"], tree["server.port"],
                             optional_key(tree, "server.workers")),
                DatabaseConfig(tree["database.host"], tree["database.port"],
                               tree["database.username"], tree["database.password"],
                               tree["database.database"],
                               optional_key(tree, "database.max_connections")),
                LoggingConfig(tree["logging.level"], optional_key(tree, "logging.file")),
                tree["features"]))

(***************************************************************************)
(* load_config_from_file.  The file system maps each existing path to      *)
(* [readable, contents].                                                   *)
(***************************************************************************)
\* faulty variant: the format is detected before the path is looked up
load_config_from_file_detects_first(filesystem, file_path) ==
    LET format == detect_format_from_extension(file_path)
    IN  IF ~is_some(format)
        THEN Err("ParseError", <<"Unsupported file format">>)
        ELSE IF file_path \notin DOMAIN filesystem
        THEN Err("FileNotFound", file_path)
        ELSE IF ~filesystem[file_path].readable
        THEN Err("IoError", <<"read_to_string">>)
        ELSE LET decoded == from_str(filesystem[file_path].contents)
             IN  IF is_some(decoded) THEN Ok(unwrap(decoded))
                 ELSE IF unwrap(format) = "Toml"
                 THEN Err("ParseError", <<"TOML parse error: ">>)
                 ELSE IF unwrap(format) = "Json"
                 THEN Err("ParseError", <<"JSON parse error: ">>)
                 ELSE Err("ParseError", <<"YAML parse error: ">>)

load_config_from_file(filesystem, file_path) ==
    IF file_path \notin DOMAIN filesystem
    THEN Err("FileNotFound", file_path)
    ELSE LET format == detect_format_from_extension(file_path)
         IN  IF ~is_some(format)
             THEN Err("ParseError", <<"Unsupported file format">>)
             ELSE IF ~filesystem[file_path].readable
             THEN Err("IoError", <<"read_to_string">>)
             ELSE LET decoded == from_str(filesystem[file_path].contents)
                  IN  IF is_some(decoded) THEN Ok(unwrap(decoded))
                      ELSE IF unwrap(format) = "Toml"
                      THEN Err("ParseError", <<"TOML parse error: ">>)
                      ELSE IF unwrap(format) = "Json"
                      THEN Err("ParseError", <<"JSON parse error: ">>)
                      ELSE Err("ParseError", <<"YAML parse error: ">>)

(***************************************************************************)
(* load_config_from_env.  The environment maps each set variable to its    *)
(* text; vars_order is the order in which env::vars() yields the names.    *)
(* Each "?" ends the function with the error.                              *)
(***************************************************************************)
env_var(environment, name) ==
    IF name \in DOMAIN environment THEN Some(environment[name]) ELSE None

ParseError(msg) == Err("ParseError", msg)

\* faulty variant: the rest of the name is the key as it is spelled
feature_name_keeps_case(key) == unwrap(strip_prefix(key, APP_FEATURES_))

\* the feature key of an APP_FEATURES_* variable
feature_name(key) == to_lowercase(unwrap(strip_prefix(key, APP_FEATURES_)))

\* faulty variant: a text that is not a boolean switches the feature off
env_feature_defaults_to_false(features, key, value) ==
    IF starts_with(key, APP_FEATURES_)
    THEN IF is_some(parse_bool(value))
         THEN insert(features, feature_name(key), unwrap(parse_bool(value)))
         ELSE insert(features, feature_name(key), FALSE)
    ELSE features

\* one turn of the loop over env::vars()
env_feature(features, key, value) ==
    IF starts_with(key, APP_FEATURES_)
    THEN IF is_some(parse_bool(value))
         THEN insert(features, feature_name(key), unwrap(parse_bool(value)))
         ELSE features
    ELSE features

RECURSIVE env_features(_, _, _)
env_features(features, environment, vars_order) ==
    IF vars_order = <<>> THEN features
    ELSE env_features(env_feature(features, Head(vars_order),
                                  environment[Head(vars_order)]),
                      environment, Tail(vars_order))

\* faulty variant: a port that does not parse is skipped instead of reported
env_server_skips_bad_port(config, environment) ==
    LET host == env_var(environment, APP_SERVER_HOST)
        port_str == env_var(environment, APP_SERVER_PORT)
        workers_str == env_var(environment, APP_SERVER_WORKERS)
        port == parse_u16(unwrap(port_str))
        workers == parse_u32(unwrap(workers_str))
        c1 == IF is_some(host) THEN [config EXCEPT !.server.host = unwrap(host)] ELSE config
        c2 == IF is_some(port_str) /\ is_some(port)
              THEN [c1 EXCEPT !.server.port = unwrap(port)] ELSE c1
        c3 == IF is_some(workers_str)
              THEN [c2 EXCEPT !.server.workers = Some(unwrap(workers))] ELSE c2
    IN  IF is_some(workers_str) /\ ~is_some(workers)
        THEN ParseError(<<"Invalid APP_SERVER_WORKERS">>)
        ELSE Ok(c3)

env_server(config, environment) ==
    LET host == env_var(environment, APP_SERVER_HOST)
        port_str == env_var(environment, APP_SERVER_PORT)
        workers_str == env_var(environment, APP_SERVER_WORKERS)
        port == parse_u16(unwrap(port_str))
        workers == parse_u32(unwrap(workers_str))
        c1 == IF is_some(host) THEN [config EXCEPT !.server.host = unwrap(host)] ELSE config
        c2 == IF is_some(port_str) THEN [c1 EXCEPT !.server.port = unwrap(port)] ELSE c1
        c3 == IF is_some(workers_str)
              THEN [c2 EXCEPT !.server.workers = Some(unwrap(workers))] ELSE c2
    IN  IF is_some(port_str) /\ ~is_some(port)
        THEN ParseError(<<"Invalid APP_SERVER_PORT">>)
        ELSE IF is_some(workers_str) /\ ~is_some(workers)
        THEN ParseError(<<"Invalid APP_SERVER_WORKERS">>)
        ELSE Ok(c3)

\* faulty variant: a max_connections text that does not parse leaves the field alone
env_database_keeps_previous_max_connections(config, environment) ==
    LET host == env_var(environment, APP_DATABASE_HOST)
        port_str == env_var(environment, APP_DATABASE_PORT)
        username == env_var(environment, APP_DATABASE_USERNAME)
        password == env_var(environment, APP_DATABASE_PASSWORD)
        database == env_var(environment, APP_DATABASE_DATABASE)
        max_conn_str == env_var(environment, APP_DATABASE_MAX_CONNECTIONS)
        port == parse_u16(unwrap(port_str))
        max_conn == parse_u32(unwrap(max_conn_str))
        c1 == IF is_some(host) THEN [config EXCEPT !.database.host = unwrap(host)] ELSE config
        c2 == IF is_some(port_str) THEN [c1 EXCEPT !.database.port = unwrap(port)] ELSE c1
        c3 == IF is_some(username)
              THEN [c2 EXCEPT !.database.username = unwrap(username)] ELSE c2
        c4 == IF is_some(password)
              THEN [c3 EXCEPT !.database.password = unwrap(password)] ELSE c3
        c5 == IF is_some(database)
              THEN [c4 EXCEPT !.database.database = unwrap(database)] ELSE c4
        c6 == IF is_some(max_conn_str) /\ is_some(max_conn)
              THEN [c5 EXCEPT !.database.max_connections = Some(unwrap(max_conn))] ELSE c5
    IN  IF is_some(port_str) /\ ~is_some(port)
        THEN ParseError(<<"Invalid APP_DATABASE_PORT">>)
        ELSE Ok(c6)

env_database(config, environment) ==
    LET host == env_var(environment, APP_DATABASE_HOST)
        port_str == env_var(environment, APP_DATABASE_PORT)
        username == env_var(environment, APP_DATABASE_USERNAME)
        password == env_var(environment, APP_DATABASE_PASSWORD)
        database == env_var(environment, APP_DATABASE_DATABASE)
        max_conn_str == env_var(environment, APP_DATABASE_MAX_CONNECTIONS)
        port == parse_u16(unwrap(port_str))
        max_conn == parse_u32(unwrap(max_conn_str))
        c1 == IF is_some(host) THEN [config EXCEPT !.database.host = unwrap(host)] ELSE config
        c2 == IF is_some(port_str) THEN [c1 EXCEPT !.database.port = unwrap(port)] ELSE c1
        c3 == IF is_some(username)
              THEN [c2 EXCEPT !.database.username = unwrap(username)] ELSE c2
        c4 == IF is_some(password)
              THEN [c3 EXCEPT !.database.password = unwrap(password)] ELSE c3
        c5 == IF is_some(database)
              THEN [c4 EXCEPT !.database.database = unwrap(database)] ELSE c4
        c6 == IF is_some(max_conn_str)
              THEN [c5 EXCEPT !.database.max_connections = Some(unwrap(max_conn))] ELSE c5
    IN  IF is_some(port_str) /\ ~is_some(port)
        THEN ParseError(<<"Invalid APP_DATABASE_PORT">>)
        ELSE IF is_some(max_conn_str) /\ ~is_some(max_conn)
        THEN ParseError(<<"Invalid APP_DATABASE_MAX_CONNECTIONS">>)
        ELSE Ok(c6)

env_logging(config, environment) ==
    LET level == env_var(environment, APP_LOGGING_LEVEL)
        file == env_var(environment, APP_LOGGING_FILE)
        c1 == IF is_some(level) THEN [config EXCEPT !.logging.level = unwrap(level)] ELSE config
        c2 == IF is_some(file) THEN [c1 EXCEPT !.logging.file = Some(unwrap(file))] ELSE c1
    IN  c2

env_feature_flags(config, environment, vars_order) ==
    [config EXCEPT !.features = env_features(config.features, environment, vars_order)]

\* faulty variant: the configuration passed in is not used
load_config_from_env_from_defaults(existing_config, environment, vars_order) ==
    LET config == create_default_config
        server == env_server(config, environment)
        database == env_database(server.val, environment)
    IN  IF is_err(server) THEN server
        ELSE IF is_err(database) THEN database
        ELSE Ok(env_feature_flags(env_logging(database.val, environment),
                                  environment, vars_order))

load_config_from_env(existing_config, environment, vars_order) ==
    LET config == IF is_some(existing_config) THEN unwrap(existing_config)
                  ELSE create_default_config
        server == env_server(config, environment)
        database == env_database(server.val, environment)
    IN  IF is_err(server) THEN server
        ELSE IF is_err(database) THEN database
        ELSE Ok(env_feature_flags(env_logging(database.val, environment),
                                  environment, vars_order))

(***************************************************************************)
(* load_config_from_args.  The command line maps each argument given to   *)
(* its text.  Command::get_matches yields the matches of a command line    *)
(* that has declared arguments only; on any other it prints the error and  *)
(* ends the process, so that load_config_from_args does not return.        *)
(***************************************************************************)
ArgIds == {"config", "server-host", "server-port", "server-workers", "database-host",
           "database-port", "database-username", "database-password", "database-name",
           "database-max-connections", "logging-level", "logging-file"}

get_matches(command_line) ==
    IF DOMAIN command_line \subseteq ArgIds THEN Some(command_line) ELSE None

\* the outcome of a call that ended the process instead of returning
ProcessExit == [ok |-> FALSE, kind |-> "ProcessExit", msg |-> <<"error: unexpected argument">>]
exits(outcome) == is_err(outcome) /\ outcome.kind = "ProcessExit"

get_one(matches, id) == IF id \in DOMAIN matches THEN Some(matches[id]) ELSE None

\* faulty variant: a bad --server-workers is reported as a bad port
args_server_misnames_workers(config, matches) ==
    LET host == get_one(matches, "server-host")
        port_str == get_one(matches, "server-port")
        workers_str == get_one(matches, "server-workers")
        port == parse_u16(unwrap(port_str))
        workers == parse_u32(unwrap(workers_str))
        c1 == IF is_some(host) THEN [config EXCEPT !.server.host = unwrap(host)] ELSE config
        c2 == IF is_some(port_str) THEN [c1 EXCEPT !.server.port = unwrap(port)] ELSE c1
        c3 == IF is_some(workers_str)
              THEN [c2 EXCEPT !.server.workers = Some(unwrap(workers))] ELSE c2
    IN  IF is_some(port_str) /\ ~is_some(port)
        THEN ParseError(<<"Invalid server port">>)
        ELSE IF is_some(workers_str) /\ ~is_some(workers)
        THEN ParseError(<<"Invalid server port">>)
        ELSE Ok(c3)

args_server(config, matches) ==
    LET host == get_one(matches, "server-host")
        port_str == get_one(matches, "server-port")
        workers_str == get_one(matches, "server-workers")
        port == parse_u16(unwrap(port_str))
        workers == parse_u32(unwrap(workers_str))
        c1 == IF is_some(host) THEN [config EXCEPT !.server.host = unwrap(host)] ELSE config
        c2 == IF is_some(port_str) THEN [c1 EXCEPT !.server.port = unwrap(port)] ELSE c1
        c3 == IF is_some(workers_str)
              THEN [c2 EXCEPT !.server.workers = Some(unwrap(workers))] ELSE c2
    IN  IF is_some(port_str) /\ ~is_some(port)
        THEN ParseError(<<"Invalid server port">>)
        ELSE IF is_some(workers_str) /\ ~is_some(workers)
        THEN ParseError(<<"Invalid server workers">>)
        ELSE Ok(c3)

args_database(config, matches) ==
    LET host == get_one(matches, "database-host")
        port_str == get_one(matches, "database-port")
        username == get_one(matches, "database-username")
        password == get_one(matches, "database-password")
        database == get_one(matches, "database-name")
        max_conn_str == get_one(matches, "database-max-connections")
        port == parse_u16(unwrap(port_str))
        max_conn == parse_u32(unwrap(max_conn_str))
        c1 == IF is_some(host) THEN [config EXCEPT !.database.host = unwrap(host)] ELSE config
        c2 == IF is_some(port_str) THEN [c1 EXCEPT !.database.port = unwrap(port)] ELSE c1
        c3 == IF is_some(username)
              THEN [c2 EXCEPT !.database.username = unwrap(username)] ELSE c2
        c4 == IF is_some(password)
              THEN [c3 EXCEPT !.database.password = unwrap(password)] ELSE c3
        c5 == IF is_some(database)
              THEN [c4 EXCEPT !.database.database = unwrap(database)] ELSE c4
        c6 == IF is_some(max_conn_str)
              THEN [c5 EXCEPT !.database.max_connections = Some(unwrap(max_conn))] ELSE c5
    IN  IF is_some(port_str) /\ ~is_some(port)
        THEN ParseError(<<"Invalid database port">>)
        ELSE IF is_some(max_conn_str) /\ ~is_some(max_conn)
        THEN ParseError(<<"Invalid max connections">>)
        ELSE Ok(c6)

\* faulty variant: --logging-file is not read
args_logging_drops_file(config, matches) ==
    LET level == get_one(matches, "logging-level")
        c1 == IF is_some(level) THEN [config EXCEPT !.logging.level = unwrap(level)] ELSE config
    IN  c1

args_logging(config, matches) ==
    LET level == get_one(matches, "logging-level")
        file == get_one(matches, "logging-file")
        c1 == IF is_some(level) THEN [config EXCEPT !.logging.level = unwrap(level)] ELSE config
        c2 == IF is_some(file) THEN [c1 EXCEPT !.logging.file = Some(unwrap(file))] ELSE c1
    IN  c2

load_config_from_args(command_line) ==
    LET matches == get_matches(command_line)
        server == args_server(create_default_config, unwrap(matches))
        database == args_database(server.val, unwrap(matches))
    IN  IF ~is_some(matches) THEN ProcessExit
        ELSE IF is_err(server) THEN server
        ELSE IF is_err(database) THEN database
        ELSE Ok(args_logging(database.val, unwrap(matches)))

(***************************************************************************)
(* Inputs of a run: the command line, the file system and the process      *)
(* environment.                                                            *)
(***************************************************************************)
Path_c_json == <<"c", ".", "j", "s", "o", "n">>
Path_c_TOML == <<"c", ".", "T", "O", "M", "L">>
Path_c_yml == <<"c", ".", "y", "m", "l">>
Path_c_txt == <<"c", ".", "t", "x", "t">>
APP_FEATURES_TELEMETRY == APP_FEATURES_ \o <<"T", "E", "L", "E", "M", "E", "T", "R", "Y">>
APP_FEATURES_METRICS == APP_FEATURES_ \o <<"M", "E", "T", "R", "I", "C", "S">>
APP_FEATURES_metrics == APP_FEATURES_ \o <<"m", "e", "t", "r", "i", "c", "s">>
HOME == <<"H", "O", "M", "E">>
Str_telemetry == <<"t", "e", "l", "e", "m", "e", "t", "r", "y">>
Str_Beta == <<"B", "e", "t", "a">>
Str_trace == <<"t", "r", "a", "c", "e">>

\* the file of scenario S2: every required key, no optional key
TreeRequired ==
    ("server.host" :> <<"f", "h">>
     @@ "server.port" :> 9000
     @@ "database.host" :> <<"f", "d", "b">>
     @@ "database.port" :> 5433
     @@ "database.username" :> <<"f", "u">>
     @@ "database.password" :> <<"f", "p">>
     @@ "database.database" :> <<"f", "d">>
     @@ "logging.level" :> <<"w", "a", "r", "n">>
     @@ "features" :> (Str_metrics :> FALSE))
\* every key, and a feature the defaults do not have
TreeFull ==
    ("server.host" :> <<"f", "h">>
     @@ "server.port" :> 9000
     @@ "server.workers" :> 16
     @@ "database.host" :> <<"f", "d", "b">>
     @@ "database.port" :> 5433
     @@ "database.username" :> <<"f", "u">>
     @@ "database.password" :> <<"f", "p">>
     @@ "database.database" :> <<"f", "d">>
     @@ "database.max_connections" :> 50
     @@ "logging.level" :> <<"w", "a", "r", "n">>
     @@ "logging.file" :> <<"f", ".", "l", "o", "g">>
     @@ "features" :> (Str_cache :> FALSE @@ Str_Beta :> TRUE))
\* a level outside the recognized set (scenario S6)
TreeTrace ==
    ("server.host" :> <<"f", "h">>
     @@ "server.port" :> 9000
     @@ "database.host" :> <<"f", "d", "b">>
     @@ "database.port" :> 5433
     @@ "database.username" :> <<"f", "u">>
     @@ "database.password" :> <<"f", "p">>
     @@ "database.database" :> <<"f", "d">>
     @@ "logging.level" :> <<"t", "r", "a", "c", "e">>
     @@ "features" :> (Str_metrics :> FALSE))
\* a level in another letter case
TreeUpper ==
    ("server.host" :> <<"f", "h">>
     @@ "server.port" :> 9000
     @@ "database.host" :> <<"f", "d", "b">>
     @@ "database.port" :> 5433
     @@ "database.username" :> <<"f", "u">>
     @@ "database.password" :> <<"f", "p">>
     @@ "database.database" :> <<"f", "d">>
     @@ "logging.level" :> <<"W", "a", "r", "n">>
     @@ "features" :> (Str_metrics :> FALSE))
\* a required key is missing
TreeMissing ==
    ("server.host" :> <<"f", "h">>
     @@ "server.port" :> 9000
     @@ "database.host" :> <<"f", "d", "b">>
     @@ "database.port" :> 5433
     @@ "database.username" :> <<"f", "u">>
     @@ "database.database" :> <<"f", "d">>
     @@ "logging.level" :> <<"w", "a", "r", "n">>
     @@ "features" :> (Str_metrics :> FALSE))

Document(wellformed, tree) == [wellformed |-> wellformed, tree |-> tree]
File(readable, contents) == [readable |-> readable, contents |-> contents]
NoFiles == <<>>

\* the --config argument (None when it is not given) and the file system
FileScenarios ==
    { [config |-> None, filesystem |-> NoFiles],
      [config |-> Some(Path_c_json), filesystem |-> NoFiles],
      [config |-> Some(Path_c_txt),
       filesystem |-> (Path_c_txt :> File(TRUE, Document(TRUE, TreeRequired)))],
      [config |-> Some(Path_c_json),
       filesystem |-> (Path_c_json :> File(FALSE, Document(TRUE, TreeRequired)))],
      [config |-> Some(Path_c_json),
       filesystem |-> (Path_c_json :> File(TRUE, Document(FALSE, TreeRequired)))],
      [config |-> Some(Path_c_yml),
       filesystem |-> (Path_c_yml :> File(TRUE, Document(TRUE, TreeMissing)))],
      [config |-> Some(Path_c_json),
       filesystem |-> (Path_c_json :> File(TRUE, Document(TRUE, TreeRequired)))],
      [config |-> Some(Path_c_TOML),
       filesystem |-> (Path_c_TOML :> File(TRUE, Document(TRUE, TreeFull)))],
      [config |-> Some(Path_c_yml),
       filesystem |-> (Path_c_yml :> File(TRUE, Document(TRUE, TreeTrace)))],
      [config |-> Some(Path_c_json),
       filesystem |-> (Path_c_json :> File(TRUE, Document(TRUE, TreeUpper)))] }

\* the (variable, text) pairs an environment is drawn from
EnvBindings ==
    { <<APP_SERVER_HOST, <<"e", "h">>>>,
      <<APP_SERVER_PORT, <<"9", "1", "0", "0">>>>,
      <<APP_SERVER_PORT, <<"a", "b", "c">>>>,
      <<APP_SERVER_WORKERS, <<"8">>>>,
      <<APP_DATABASE_HOST, <<"e", "d", "b">>>>,
      <<APP_DATABASE_PORT, <<"6", "4", "3", "2">>>>,
      <<APP_DATABASE_USERNAME, <<"e", "u">>>>,
      <<APP_DATABASE_PASSWORD, <<"e", "p">>>>,
      <<APP_DATABASE_DATABASE, <<"e", "d">>>>,
      <<APP_DATABASE_MAX_CONNECTIONS, <<"2", "0">>>>,
      <<APP_LOGGING_LEVEL, <<"e", "r", "r", "o", "r">>>>,
      <<APP_LOGGING_FILE, <<"e", ".", "l", "o", "g">>>>,
      <<APP_FEATURES_TELEMETRY, <<"t", "r", "u", "e">>>>,
      <<APP_FEATURES_METRICS, <<"f", "a", "l", "s", "e">>>>,
      <<APP_FEATURES_metrics, <<"t", "r", "u", "e">>>>,
      <<APP_FEATURES_TELEMETRY, <<"y", "e", "s">>>>,
      <<APP_SERVER_HOST, <<>>>>,
      <<APP_SERVER_PORT, <<"6", "5", "5", "3", "6">>>>,
      <<APP_DATABASE_MAX_CONNECTIONS, <<"0">>>>,
      <<APP_LOGGING_LEVEL, <<"I", "N", "F", "O">>>>,
      <<APP_DATABASE_PORT, <<"7", "0", "0", "0", "0">>>>,
      <<HOME, <<"/", "r">>>> }

\* the (flag, text) pairs a command line is drawn from
FlagBindings ==
    { <<"server-host", <<"a", "h">>>>,
      <<"server-port", <<"7", "0", "0", "0">>>>,
      <<"server-port", <<"x">>>>,
      <<"server-workers", <<"2">>>>,
      <<"database-host", <<"a", "d", "b">>>>,
      <<"database-port", <<"7", "4", "3", "2">>>>,
      <<"database-username", <<"a", "u">>>>,
      <<"database-password", <<"a", "p">>>>,
      <<"database-name", <<"a", "d">>>>,
      <<"database-max-connections", <<"3", "0">>>>,
      <<"logging-level", <<"d", "e", "b", "u", "g">>>>,
      <<"logging-level", <<"t", "r", "a", "c", "e">>>>,
      <<"logging-file", <<"a", ".", "l", "o", "g">>>>,
      <<"database-port", <<"0">>>>,
      <<"database-name", <<>>>>,
      <<"logging-level", <<"W", "A", "R", "N">>>>,
      <<"server-port", <<"6", "5", "5", "3", "6">>>>,
      <<"database-port", <<"7", "0", "0", "0", "0">>>>,
      <<"verbose", <<>>>> }
\* the sets of n pairs that bind each name at most once
RECURSIVE Bindable(_, _)
Bindable(bindings, n) ==
    IF n = 0 THEN {{}}
    ELSE UNION { { S \cup {b} : b \in { b \in bindings : \A a \in S : a[1] # b[1] } } :
                 S \in Bindable(bindings, n - 1) }

\* the map a set of pairs denotes
map_of(S) == [name \in { b[1] : b \in S } |-> (CHOOSE b \in S : b[1] = name)[2]]

Environments(n) == { map_of(S) : S \in Bindable(EnvBindings, n) }
FlagSets(n) == { map_of(S) : S \in Bindable(FlagBindings, n) }

\* the orders in which env::vars() may yield the names of an environment
VarsOrders(environment) ==
    LET names == DOMAIN environment
        n == Cardinality(names)
    IN  { order \in [1..n -> names] : \A i, j \in 1..n : order[i] = order[j] => i = j }

(***************************************************************************)
(* State.  The inputs (cmdline, filesystem, environ) are fixed when the    *)
(* process starts; pc is the step load_config is at, config its builder,   *)
(* result what it returned (None while it runs), stderr what was written   *)
(* to the standard error stream and steps the steps that ran, in order.    *)
(* base, overrides and merged are the arguments and the result of a call   *)
(* of merge_configs on its own, and file_path the path a call of the file  *)
(* source or of the format detector on its own is given (None otherwise).  *)
(* env_history lists the states the process environment went through       *)
(* during a call of the environment source that another thread's set_var   *)
(* and remove_var run alongside (empty otherwise), and vars_iter is what    *)
(* is left of the iterator env::vars() returned in such a call.            *)
(***************************************************************************)
VARIABLES cmdline, filesystem, environ, file_path, pc, config, result, stderr,
          steps, base, overrides, merged, env_history, vars_iter

vars == <<cmdline, filesystem, environ, file_path, pc, config, result, stderr,
          steps, base, overrides, merged, env_history, vars_iter>>

inputs == <<cmdline, filesystem, environ, file_path>>
merge_vars == <<base, overrides, merged>>
race_vars == <<env_history, vars_iter>>

\* a run starts with any file scenario and at most MaxSettings variables and
\* flags set, together
Init ==
    /\ \E scenario \in FileScenarios, n_env \in 0..MaxSettings :
         \E env \in Environments(n_env), n_flags \in 0..(MaxSettings - n_env) :
           \E flags \in FlagSets(n_flags) :
             /\ cmdline = IF is_some(scenario.config)
                          THEN ("config" :> unwrap(scenario.config)) @@ flags
                          ELSE flags
             /\ filesystem = scenario.filesystem
             /\ environ = env
    /\ file_path = None
    /\ pc = "defaults"
    /\ config = None
    /\ result = None
    /\ stderr = <<>>
    /\ steps = <<>>
    /\ base = None
    /\ overrides = None
    /\ merged = None
    /\ env_history = <<>>
    /\ vars_iter = None

(***************************************************************************)
(* load_config, one action per step of its sequence: build the defaults;   *)
(* load and merge the file when --config was given; apply the environment  *)
(* source to the result; merge the argument source's configuration into    *)
(* it; validate and return.  A step that fails returns its error; the      *)
(* orchestrator reads --config itself, and the process ends (pc is         *)
(* "exited") when the argument source's parser rejects the command line.   *)
(***************************************************************************)
return(r) ==
    /\ result' = Some(r)
    /\ pc' = "done"

load_config_defaults ==
    /\ pc = "defaults"
    /\ config' = Some(create_default_config)
    /\ pc' = "file"
    /\ steps' = Append(steps, "defaults")
    /\ UNCHANGED <<inputs, result, stderr, merge_vars, race_vars>>

load_config_file ==
    /\ pc = "file"
    /\ IF is_some(get_one(cmdline, "config"))
       THEN LET loaded == load_config_from_file(filesystem, unwrap(get_one(cmdline, "config")))
            IN  /\ steps' = Append(steps, "file")
                /\ IF is_err(loaded)
                   THEN /\ return(loaded)
                        /\ UNCHANGED config
                   ELSE /\ config' = Some(merge_configs(unwrap(config), loaded.val))
                        /\ pc' = "env"
                        /\ UNCHANGED result
       ELSE /\ pc' = "env"
            /\ UNCHANGED <<config, result, steps>>
    /\ UNCHANGED <<inputs, stderr, merge_vars, race_vars>>

load_config_env ==
    /\ pc = "env"
    /\ \E vars_order \in VarsOrders(environ) :
         LET loaded == load_config_from_env(config, environ, vars_order)
         IN  IF is_err(loaded)
             THEN /\ return(loaded)
                  /\ UNCHANGED config
             ELSE /\ config' = Some(loaded.val)
                  /\ pc' = "args"
                  /\ UNCHANGED result
    /\ steps' = Append(steps, "env")
    /\ UNCHANGED <<inputs, stderr, merge_vars, race_vars>>

load_config_args ==
    /\ pc = "args"
    /\ LET loaded == load_config_from_args(cmdline)
       IN  IF exits(loaded)
           THEN /\ pc' = "exited"
                /\ UNCHANGED <<config, result>>
           ELSE IF is_err(loaded)
           THEN /\ return(loaded)
                /\ UNCHANGED config
           ELSE /\ config' = Some(merge_configs(unwrap(config), loaded.val))
                /\ pc' = "validate"
                /\ UNCHANGED result
    /\ steps' = Append(steps, "args")
    /\ UNCHANGED <<inputs, stderr, merge_vars, race_vars>>

load_config_validate ==
    /\ pc = "validate"
    /\ LET checked == validate_config(unwrap(config))
       IN  IF is_err(checked)
           THEN return(checked)
           ELSE return(Ok(unwrap(config)))
    /\ stderr' = stderr \o validate_config_warnings(unwrap(config))
    /\ steps' = Append(steps, "validate")
    /\ UNCHANGED <<inputs, config, merge_vars, race_vars>>

Next ==
    \/ load_config_defaults
    \/ load_config_file
    \/ load_config_env
    \/ load_config_args
    \/ load_config_validate

Spec == Init /\ [][Next]_vars

(***************************************************************************)
(* merge_configs on its own: base and overrides are drawn from the         *)
(* configurations below and one call merges them.                          *)
(***************************************************************************)
FeatureKeys == {Str_metrics, Str_cache, Str_Beta}

\* the maps of at most n of these keys
FeatureMaps(n) ==
    UNION { [keys -> BOOLEAN] : keys \in { K \in SUBSET FeatureKeys : Cardinality(K) <= n } }

\* two settings of the required scalar fields that differ in every field
RequiredSettings ==
    { [server_host |-> Str_127_0_0_1, server_port |-> 8080,
       database_host |-> Str_localhost, database_port |-> 5432,
       username |-> Str_postgres, password |-> Str_empty, database |-> Str_myapp,
       level |-> Str_info],
      [server_host |-> <<"f", "h">>, server_port |-> 9000,
       database_host |-> <<"f", "d", "b">>, database_port |-> 5433,
       username |-> <<"f", "u">>, password |-> <<"f", "p">>, database |-> <<"f", "d">>,
       level |-> Str_warn] }

MergeConfigs ==
    { AppConfig(ServerConfig(r.server_host, r.server_port,
                             IF present.workers
                             THEN Some(r.server_port \div 1000) ELSE None),
                DatabaseConfig(r.database_host, r.database_port, r.username, r.password,
                               r.database,
                               IF present.max_connections
                               THEN Some(r.database_port \div 100) ELSE None),
                LoggingConfig(r.level,
                              IF present.file
                              THEN Some(r.server_host \o <<".", "l", "o", "g">>)
                              ELSE None),
                features) :
        r \in RequiredSettings,
        present \in [workers : BOOLEAN, max_connections : BOOLEAN, file : BOOLEAN],
        features \in FeatureMaps(MaxFeatureKeys) }

InitMerge ==
    /\ base \in { Some(c) : c \in MergeConfigs }
    /\ overrides \in { Some(c) : c \in MergeConfigs }
    /\ merged = None
    /\ env_history = <<>>
    /\ vars_iter = None
    /\ pc = "merge"
    /\ cmdline = <<>>
    /\ filesystem = NoFiles
    /\ environ = <<>>
    /\ file_path = None
    /\ config = None
    /\ result = None
    /\ stderr = <<>>
    /\ steps = <<>>

merge_call ==
    /\ pc = "merge"
    /\ merged' = Some(merge_configs(unwrap(base), unwrap(overrides)))
    /\ pc' = "merged"
    /\ UNCHANGED <<inputs, config, result, stderr, steps, base, overrides,
                 race_vars>>

NextMerge == merge_call

SpecMerge == InitMerge /\ [][NextMerge]_vars

(***************************************************************************)
(* What the claims below speak of.                                         *)
(***************************************************************************)
Returned == pc = "done" /\ is_some(result)
ReturnedOk == Returned /\ is_ok(unwrap(result))
ReturnedErr == Returned /\ is_err(unwrap(result))
final == unwrap(result).val

FileGiven == "config" \in DOMAIN cmdline
file_result == load_config_from_file(filesystem, cmdline["config"])
file_tree == filesystem[cmdline["config"]].contents.tree
last_step == steps[Len(steps)]

\* the configuration of the defaults provider, as the specification lists it
ExpectedDefaults ==
    [server |-> [host |-> <<"1", "2", "7", ".", "0", ".", "0", ".", "1">>,
                 port |-> 8080, workers |-> <<4>>],
     database |-> [host |-> <<"l", "o", "c", "a", "l", "h", "o", "s", "t">>,
                   port |-> 5432,
                   username |-> <<"p", "o", "s", "t", "g", "r", "e", "s">>,
                   password |-> <<>>,
                   database |-> <<"m", "y", "a", "p", "p">>,
                   max_connections |-> <<10>>],
     logging |-> [level |-> <<"i", "n", "f", "o">>,
                  file |-> <<<<"a", "p", "p", ".", "l", "o", "g">>>>],
     features |-> (<<"d", "e", "b", "u", "g", "_", "m", "o", "d", "e">> :> FALSE
                   @@ <<"m", "e", "t", "r", "i", "c", "s">> :> TRUE
                   @@ <<"c", "a", "c", "h", "e">> :> TRUE)]

(***************************************************************************)
(* C1.  Precedence: in the configuration the pipeline returns, every field *)
(* has the value of the highest-precedence source that supplied it, under  *)
(* defaults < file < env < args, and a lower source's value survives when  *)
(* the higher sources are silent on the field.                             *)
(***************************************************************************)
\* the value of a scalar field under the documented precedence
ByPrecedence(flag, variable, key, default, parse(_)) ==
    IF flag \in DOMAIN cmdline THEN parse(cmdline[flag])
    ELSE IF variable \in DOMAIN environ THEN parse(environ[variable])
    ELSE IF FileGiven /\ key \in DOMAIN file_tree THEN file_tree[key]
    ELSE default

AsText(t) == t
AsU16(t) == unwrap(parse_u16(t))
AsU32(t) == unwrap(parse_u32(t))

\* the values the environment supplies for feature key k
EnvFeatureValues(k) ==
    { environ[name] : name \in { n \in DOMAIN environ :
          /\ starts_with(n, APP_FEATURES_)
          /\ to_lowercase(unwrap(strip_prefix(n, APP_FEATURES_))) = k
          /\ environ[n] \in {Str_true, Str_false} } }

EnvFeatureKeys ==
    { to_lowercase(unwrap(strip_prefix(n, APP_FEATURES_))) :
        n \in { n \in DOMAIN environ : /\ starts_with(n, APP_FEATURES_)
                                       /\ environ[n] \in {Str_true, Str_false} } }

FileFeatures == IF FileGiven THEN file_tree["features"] ELSE <<>>

FeatureByPrecedence(k, value) ==
    IF EnvFeatureValues(k) # {}
    THEN (IF value THEN Str_true ELSE Str_false) \in EnvFeatureValues(k)
    ELSE IF k \in DOMAIN FileFeatures THEN value = FileFeatures[k]
    ELSE value = ExpectedDefaults.features[k]

\* C1: every field of the returned configuration has the value of the highest-
\* precedence source that supplied it (defaults < file < env < args)
C1_Precedence ==
    ReturnedOk =>
      /\ final.server.host = ByPrecedence("server-host", APP_SERVER_HOST, "server.host",
                                          ExpectedDefaults.server.host, AsText)
      /\ final.server.port = ByPrecedence("server-port", APP_SERVER_PORT, "server.port",
                                          ExpectedDefaults.server.port, AsU16)
      /\ final.server.workers =
           Some(ByPrecedence("server-workers", APP_SERVER_WORKERS, "server.workers",
                             unwrap(ExpectedDefaults.server.workers), AsU32))
      /\ final.database.host = ByPrecedence("database-host", APP_DATABASE_HOST,
                                            "database.host",
                                            ExpectedDefaults.database.host, AsText)
      /\ final.database.port = ByPrecedence("database-port", APP_DATABASE_PORT,
                                            "database.port",
                                            ExpectedDefaults.database.port, AsU16)
      /\ final.database.username =
           ByPrecedence("database-username", APP_DATABASE_USERNAME, "database.username",
                        ExpectedDefaults.database.username, AsText)
      /\ final.database.password =
           ByPrecedence("database-password", APP_DATABASE_PASSWORD, "database.password",
                        ExpectedDefaults.database.password, AsText)
      /\ final.database.database =
           ByPrecedence("database-name", APP_DATABASE_DATABASE, "database.database",
                        ExpectedDefaults.database.database, AsText)
      /\ final.database.max_connections =
           Some(ByPrecedence("database-max-connections", APP_DATABASE_MAX_CONNECTIONS,
                             "database.max_connections",
                             unwrap(ExpectedDefaults.database.max_connections), AsU32))
      /\ final.logging.level = ByPrecedence("logging-level", APP_LOGGING_LEVEL,
                                            "logging.level",
                                            ExpectedDefaults.logging.level, AsText)
      /\ final.logging.file =
           Some(ByPrecedence("logging-file", APP_LOGGING_FILE, "logging.file",
                             unwrap(ExpectedDefaults.logging.file), AsText))
      /\ DOMAIN final.features =
           DOMAIN ExpectedDefaults.features \cup DOMAIN FileFeatures \cup EnvFeatureKeys
      /\ \A k \in DOMAIN final.features : FeatureByPrecedence(k, final.features[k])


(***************************************************************************)
(* C2.  When the flag of a required scalar field is not passed, applying   *)
(* the argument source and merging it leaves the field as the file and     *)
(* environment layers left it.                                             *)
(***************************************************************************)
ArgsMerged == pc = "args" /\ pc' = "validate"

\* C2: the argument merge leaves a required scalar whose flag was not passed as it was
C2_UnsetFlagKeepsScalar ==
    [][ArgsMerged =>
        LET prev == unwrap(config)
            next == unwrap(config')
        IN  /\ "server-host" \notin DOMAIN cmdline => next.server.host = prev.server.host
            /\ "server-port" \notin DOMAIN cmdline => next.server.port = prev.server.port
            /\ "database-host" \notin DOMAIN cmdline
                 => next.database.host = prev.database.host
            /\ "database-port" \notin DOMAIN cmdline
                 => next.database.port = prev.database.port
            /\ "database-username" \notin DOMAIN cmdline
                 => next.database.username = prev.database.username
            /\ "database-password" \notin DOMAIN cmdline
                 => next.database.password = prev.database.password
            /\ "database-name" \notin DOMAIN cmdline
                 => next.database.database = prev.database.database
            /\ "logging-level" \notin DOMAIN cmdline
                 => next.logging.level = prev.logging.level]_vars

(***************************************************************************)
(* C3.  Merging the argument source's configuration leaves the features    *)
(* map as it was: the command line has no feature flags.                   *)
(***************************************************************************)
\* C3: the argument merge leaves the features map as it was
C3_ArgsLeaveFeatures ==
    [][ArgsMerged => unwrap(config').features = unwrap(config).features]_vars

(***************************************************************************)
(* C4.  The steps run in the order defaults, file (only with --config),    *)
(* environment, arguments, validate; a failing step ends the run, its      *)
(* error is what is returned, and on success the merged configuration is   *)
(* returned.  In particular an APP_SERVER_PORT that is no number ends the  *)
(* run at the environment step with ParseError("Invalid APP_SERVER_PORT"). *)
(***************************************************************************)
ExpectedSteps ==
    <<"defaults">> \o (IF FileGiven THEN <<"file">> ELSE <<>>)
                   \o <<"env", "args", "validate">>

IsPrefix(s, t) == Len(s) <= Len(t) /\ SubSeq(t, 1, Len(s)) = s

\* the error of the step that ran last, from the state it ran in
ErrorOfLastStep(error) ==
    CASE last_step = "file" -> error = file_result
      [] last_step = "env" ->
           \E order \in VarsOrders(environ) :
             error = load_config_from_env(config, environ, order)
      [] last_step = "args" -> error = load_config_from_args(cmdline)
      [] last_step = "validate" -> error = validate_config(unwrap(config))
      [] OTHER -> FALSE

BadServerPortInEnv ==
    /\ APP_SERVER_PORT \in DOMAIN environ
    /\ environ[APP_SERVER_PORT] = <<"a", "b", "c">>

RecognizedLevels ==
    { <<"d", "e", "b", "u", "g">>, <<"i", "n", "f", "o">>, <<"w", "a", "r", "n">>,
      <<"e", "r", "r", "o", "r">> }

SatisfiesInvariants(c) ==
    /\ Len(c.server.host) > 0
    /\ Len(c.database.host) > 0
    /\ Len(c.database.username) > 0
    /\ Len(c.database.database) > 0
    /\ c.server.port \in 1..65535
    /\ c.database.port \in 1..65535
    /\ c.server.workers # <<>> => c.server.workers[1] > 0
    /\ c.database.max_connections # <<>> => c.database.max_connections[1] > 0
    /\ c.logging.level \in RecognizedLevels

\* C5: a returned configuration satisfies the data-model invariants and was
\* validated once, last, as merged
C5_ReturnedConfigSatisfiesInvariants ==
    ReturnedOk =>
      /\ SatisfiesInvariants(final)
      /\ final = unwrap(config)
      /\ last_step = "validate"
      /\ Cardinality({ i \in 1..Len(steps) : steps[i] = "validate" }) = 1

\* a file, a variable and a flag all contributed to a returned configuration
C5_Witness ==
    /\ ReturnedOk
    /\ FileGiven
    /\ APP_DATABASE_HOST \in DOMAIN environ
    /\ "logging-level" \in DOMAIN cmdline

(***************************************************************************)
(* C9.  The configuration of the defaults provider has the listed values   *)
(* and passes the validator.                                               *)
(***************************************************************************)
DefaultsBuilt == pc = "file" /\ steps = <<"defaults">>

\* C9: the defaults provider's configuration has the listed values and passes
\* the validator
C9_DefaultsPassValidator ==
    DefaultsBuilt =>
      /\ unwrap(config) = ExpectedDefaults
      /\ validate_config(unwrap(config)) = Ok(<<>>)

C9_Witness == DefaultsBuilt /\ is_some(config)

(***************************************************************************)
(* C10.  With no file, no APP_* variable and no flag the pipeline succeeds *)
(* and returns the configuration of the defaults provider.                 *)
(***************************************************************************)
NoAppVariable == \A n \in DOMAIN environ : ~starts_with(n, <<"A", "P", "P", "_">>)
NothingGiven == DOMAIN cmdline = {} /\ NoAppVariable

\* C10: with nothing given the pipeline returns Ok with exactly the defaults
C10_DefaultsOnly ==
    (pc = "done" /\ NothingGiven) => result = Some(Ok(ExpectedDefaults))

\* a run with another variable in the environment, but none of the loader's
C10_Witness ==
    /\ Returned
    /\ NothingGiven
    /\ HOME \in DOMAIN environ

(***************************************************************************)
(* C6.  merge(base, overrides): every required scalar field of the result  *)
(* is the override's.                                                      *)
(***************************************************************************)
Merged == pc = "merged" /\ is_some(merged)

\* C6: every required scalar field of merge(base, overrides) is the override's
C6_RequiredScalarsFromOverride ==
    Merged =>
      LET m == unwrap(merged)
          o == unwrap(overrides)
      IN  /\ m.server.host = o.server.host
          /\ m.server.port = o.server.port
          /\ m.database.host = o.database.host
          /\ m.database.port = o.database.port
          /\ m.database.username = o.database.username
          /\ m.database.password = o.database.password
          /\ m.database.database = o.database.database
          /\ m.logging.level = o.logging.level

\* base and override differ in the required fields
C6_Witness ==
    /\ Merged
    /\ unwrap(base).server.host # unwrap(overrides).server.host
    /\ unwrap(base).logging.level # unwrap(overrides).logging.level

(***************************************************************************)
(* C7.  merge(base, overrides): each optional field of the result is the   *)
(* override's when the override has one, and the base's, present or        *)
(* absent, when it has none.                                               *)
(***************************************************************************)
OptionalMerged(b, o) == IF o # <<>> THEN o ELSE b

\* C7: an optional field of merge(base, overrides) is the override's when present,
\* else the base's
C7_OptionalFieldsMerge ==
    Merged =>
      LET m == unwrap(merged)
          b == unwrap(base)
          o == unwrap(overrides)
      IN  /\ m.server.workers = OptionalMerged(b.server.workers, o.server.workers)
          /\ m.database.max_connections =
               OptionalMerged(b.database.max_connections, o.database.max_connections)
          /\ m.logging.file = OptionalMerged(b.logging.file, o.logging.file)

\* one field kept from the base, one taken from the override, one absent in both
C7_Witness ==
    /\ Merged
    /\ unwrap(overrides).server.workers = None
    /\ unwrap(base).server.workers # None
    /\ unwrap(overrides).logging.file # None
    /\ unwrap(base).logging.file # None
    /\ unwrap(overrides).logging.file # unwrap(base).logging.file
    /\ unwrap(overrides).database.max_connections = None
    /\ unwrap(base).database.max_connections = None

(***************************************************************************)
(* C8.  merge(base, overrides): the keys of the result's features map are  *)
(* the union of both key sets, with the override's value on a key of the   *)
(* override and the base's value on every other key.                       *)
(***************************************************************************)
\* C8: the features of merge(base, overrides) are the union of both maps, the
\* override winning on a key both have
C8_FeaturesUnionOverrideWins ==
    Merged =>
      LET m == unwrap(merged).features
          b == unwrap(base).features
          o == unwrap(overrides).features
      IN  /\ DOMAIN m = DOMAIN b \cup DOMAIN o
          /\ \A k \in DOMAIN m : m[k] = IF k \in DOMAIN o THEN o[k] ELSE b[k]

\* a key of the base alone, a key of the override alone and a key both have,
\* with different values
C8_Witness ==
    /\ Merged
    /\ LET b == unwrap(base).features
           o == unwrap(overrides).features
       IN  /\ DOMAIN b \ DOMAIN o # {}
           /\ DOMAIN o \ DOMAIN b # {}
           /\ \E k \in DOMAIN b \cap DOMAIN o : b[k] # o[k]

(***************************************************************************)
(* validate_config on its own: config is drawn from the configurations     *)
(* below, which vary every field the validator looks at, and one call      *)
(* checks it.                                                              *)
(***************************************************************************)
ValidatorConfigs ==
    { AppConfig(ServerConfig(server_host, server_port, workers),
                DatabaseConfig(database_host, database_port, username, password, database,
                               max_connections),
                LoggingConfig(level, None),
                HashMap_new) :
        server_host \in {Str_empty, Str_127_0_0_1},
        server_port \in {0, DefaultServerPort, U16_MAX},
        workers \in {None, Some(0), Some(DefaultServerWorkers)},
        database_host \in {Str_empty, Str_localhost, <<"d", "b">>},
        database_port \in {0, DefaultDatabasePort},
        username \in {Str_empty, Str_postgres},
        password \in {Str_empty, <<"p", "w">>},
        database \in {Str_empty, Str_myapp},
        max_connections \in {None, Some(0), Some(DefaultMaxConnections)},
        level \in {Str_debug, Str_info, Str_warn, Str_error, Str_trace, Str_empty,
                   <<"I", "N", "F", "O">>, <<"W", "a", "r", "n">>} }

InitValidate ==
    /\ config \in { Some(c) : c \in ValidatorConfigs }
    /\ pc = "validate_config"
    /\ result = None
    /\ stderr = <<>>
    /\ steps = <<>>
    /\ cmdline = <<>>
    /\ filesystem = NoFiles
    /\ environ = <<>>
    /\ file_path = None
    /\ base = None
    /\ overrides = None
    /\ merged = None
    /\ env_history = <<>>
    /\ vars_iter = None

validate_config_call ==
    /\ pc = "validate_config"
    /\ result' = Some(validate_config(unwrap(config)))
    /\ stderr' = stderr \o validate_config_warnings(unwrap(config))
    /\ pc' = "returned"
    /\ UNCHANGED <<inputs, config, steps, merge_vars, race_vars>>

NextValidate == validate_config_call

SpecValidate == InitValidate /\ [][NextValidate]_vars

(***************************************************************************)
(* C11.  The validator fails, with a ValidationError, exactly when one of  *)
(* the nine conditions holds; an empty password with a host other than     *)
(* "localhost" is a warning only.                                          *)
(***************************************************************************)
Violates(c) ==
    \/ c.server.host = Str_empty
    \/ c.server.port = 0
    \/ (c.server.workers # None /\ c.server.workers[1] = 0)
    \/ c.database.host = Str_empty
    \/ c.database.port = 0
    \/ c.database.username = Str_empty
    \/ c.database.database = Str_empty
    \/ (c.database.max_connections # None /\ c.database.max_connections[1] = 0)
    \/ c.logging.level \notin RecognizedLevels

EmptyPasswordRemoteHost(c) ==
    c.database.password = Str_empty /\ c.database.host # Str_localhost

\* C11: validate_config returns a ValidationError exactly when the server host is empty, the server port is 0, workers is present and 0, the database host is empty, the database port is 0, the username is empty, the database name is empty, max_connections is present and 0, or the level is not debug, info, warn or error, and succeeds otherwise; an empty password with a host other than localhost only writes a warning
C11_ValidatorFailsExactlyOnViolation ==
    pc = "returned" =>
        LET c == unwrap(config)
            r == unwrap(result)
        IN  /\ is_err(r) <=> Violates(c)
            /\ is_err(r) => r.kind = "ValidationError"
            /\ ~Violates(c) => r = Ok(<<>>)
            /\ (EmptyPasswordRemoteHost(c) /\ ~Violates(c)) =>
                   /\ is_ok(r)
                   /\ stderr = <<"Warning: Empty database password used with non-localhost host">>
            /\ ~(EmptyPasswordRemoteHost(c) /\ ~Violates(c)) => stderr = <<>>

C11_Witness ==
    /\ pc = "returned"
    /\ EmptyPasswordRemoteHost(unwrap(config))
    /\ unwrap(config).database.host = <<"d", "b">>
    /\ is_ok(unwrap(result))
    /\ stderr # <<>>

(***************************************************************************)
(* C12.  The letter case of logging.level.  Each source stores the level   *)
(* as it was given and the validator compares it as stored.                *)
(***************************************************************************)
LevelFlagGiven == "logging-level" \in DOMAIN cmdline
LevelVariableSet == APP_LOGGING_LEVEL \in DOMAIN environ
LevelMessage == <<"Invalid logging level: ">>

\* C12 as stated: the loader lowercases logging.level before it is compared, so a level given by the file, by APP_LOGGING_LEVEL or by --logging-level in another letter case (INFO, Warn) is accepted and stored in lowercase
C12_LevelNormalizedToLowercase ==
    /\ (pc = "env" /\ FileGiven) =>
           unwrap(config).logging.level = to_lowercase(file_tree["logging.level"])
    /\ (pc = "args" /\ LevelVariableSet) =>
           unwrap(config).logging.level = to_lowercase(environ[APP_LOGGING_LEVEL])
    /\ (pc = "validate" /\ LevelFlagGiven) =>
           unwrap(config).logging.level = to_lowercase(cmdline["logging-level"])
    /\ (Returned /\ last_step = "validate" /\ LevelFlagGiven
          /\ to_lowercase(cmdline["logging-level"]) \in RecognizedLevels) =>
           /\ ~(ReturnedErr /\ SubSeq(unwrap(result).msg, 1, 1) = LevelMessage)
           /\ ReturnedOk => final.logging.level = to_lowercase(cmdline["logging-level"])

\* C12 (amended): no source changes the letter case of logging.level (the file, APP_LOGGING_LEVEL and --logging-level values are stored as given) and the validator compares the stored text with debug, info, warn and error exactly, so a level in another letter case that reaches validation is rejected with ValidationError("Invalid logging level: <level>")
C12_LevelStoredAsGivenComparedExactly ==
    /\ (pc = "env" /\ FileGiven) =>
           unwrap(config).logging.level = file_tree["logging.level"]
    /\ (pc = "args" /\ LevelVariableSet) =>
           unwrap(config).logging.level = environ[APP_LOGGING_LEVEL]
    /\ (pc = "validate" /\ LevelFlagGiven) =>
           unwrap(config).logging.level = cmdline["logging-level"]
    /\ (Returned /\ last_step = "validate"
          /\ unwrap(config).logging.level \notin RecognizedLevels) =>
           /\ ReturnedErr
           /\ unwrap(result).kind = "ValidationError"
           /\ SubSeq(unwrap(result).msg, 1, 1) = LevelMessage =>
                  unwrap(result).msg = LevelMessage \o unwrap(config).logging.level

C12_Witness ==
    /\ Returned
    /\ LevelFlagGiven
    /\ cmdline["logging-level"] = <<"W", "A", "R", "N">>
    /\ unwrap(result) = ValidationError(LevelMessage \o <<"W", "A", "R", "N">>)

(***************************************************************************)
(* C13.  The letter case of the keys of the features map.                  *)
(***************************************************************************)
CapitalLetters ==
    {"A", "B", "C", "D", "E", "F", "G", "H", "I", "J", "K", "L", "M",
     "N", "O", "P", "Q", "R", "S", "T", "U", "V", "W", "X", "Y", "Z"}

IsLowercase(text) == \A i \in 1..Len(text) : text[i] \notin CapitalLetters

\* the key each APP_FEATURES_* variable of the runs stands for
LowercasedRemainder ==
    (APP_FEATURES_TELEMETRY :> <<"t", "e", "l", "e", "m", "e", "t", "r", "y">>)
    @@ (APP_FEATURES_METRICS :> <<"m", "e", "t", "r", "i", "c", "s">>)
    @@ (APP_FEATURES_metrics :> <<"m", "e", "t", "r", "i", "c", "s">>)

\* the keys the environment adds: those of the feature variables whose text is a boolean
KeysFromEnvironment ==
    { LowercasedRemainder[name] :
        name \in { n \in DOMAIN environ \cap DOMAIN LowercasedRemainder :
                     environ[n] \in {<<"t", "r", "u", "e">>, <<"f", "a", "l", "s", "e">>} } }

\* C13 as stated: in every configuration the loader produces every key of the features map is lowercase, whichever source introduced it, the [features] section of a file included
C13_FeatureKeysLowercase ==
    /\ is_some(config) => \A k \in DOMAIN unwrap(config).features : IsLowercase(k)
    /\ ReturnedOk => \A k \in DOMAIN final.features : IsLowercase(k)

\* C13 (amended): a key derived from an APP_FEATURES_* variable is the lowercased remainder of the variable name; a key read from the [features] section of a file is in the configuration as the file spells it, so the keys of the configuration are the default keys, the file's keys as written and the lowercased environment keys
C13_EnvKeysLowercasedFileKeysAsWritten ==
    /\ (pc = "env" /\ FileGiven) =>
           DOMAIN unwrap(config).features =
               DOMAIN ExpectedDefaults.features \cup DOMAIN file_tree["features"]
    /\ pc = "args" =>
           DOMAIN unwrap(config).features =
               DOMAIN ExpectedDefaults.features \cup DOMAIN FileFeatures
                   \cup KeysFromEnvironment
    /\ ReturnedOk =>
           DOMAIN final.features =
               DOMAIN ExpectedDefaults.features \cup DOMAIN FileFeatures
                   \cup KeysFromEnvironment
    /\ \A k \in KeysFromEnvironment : IsLowercase(k)

C13_Witness ==
    /\ ReturnedOk
    /\ APP_FEATURES_TELEMETRY \in DOMAIN environ
    /\ <<"t", "e", "l", "e", "m", "e", "t", "r", "y">> \in DOMAIN final.features
    /\ <<"B", "e", "t", "a">> \in DOMAIN final.features
    /\ <<"B", "e", "t", "a">> \in DOMAIN file_tree["features"]

(***************************************************************************)
(* load_config_from_env on its own: config is the existing_config argument *)
(* (None or a configuration), environ the process environment, and one     *)
(* call returns the result.                                                *)
(***************************************************************************)
APP_FEATURES_CACHE == APP_FEATURES_ \o <<"C", "A", "C", "H", "E">>

\* more texts that are not numbers or not booleans
EnvSourceBindings ==
    EnvBindings \cup
    { <<APP_SERVER_PORT, <<"+", "8", "0">>>>,
      <<APP_SERVER_WORKERS, <<"-", "1">>>>,
      <<APP_SERVER_WORKERS, <<"4", "2", "9", "4", "9", "6", "7", "2", "9", "6">>>>,
      <<APP_DATABASE_PORT, Str_empty>>,
      <<APP_DATABASE_MAX_CONNECTIONS, <<"1", "e", "3">>>>,
      <<APP_FEATURES_CACHE, <<"1">>>>,
      <<APP_FEATURES_METRICS, <<"T", "R", "U", "E">>>> }

\* a configuration as a file without optional keys gives it
ConfigFromFile ==
    AppConfig(ServerConfig(<<"f", "h">>, 9000, None),
              DatabaseConfig(<<"f", "d", "b">>, 5433, <<"f", "u">>, <<"f", "p">>,
                             <<"f", "d">>, None),
              LoggingConfig(Str_warn, None),
              insert(insert(HashMap_new, Str_metrics, FALSE), Str_Beta, TRUE))

ExistingConfigs == {None, Some(create_default_config), Some(ConfigFromFile)}

InitEnv ==
    /\ config \in ExistingConfigs
    /\ \E n \in 0..MaxSettings :
         environ \in { map_of(S) : S \in Bindable(EnvSourceBindings, n) }
    /\ pc = "load_config_from_env"
    /\ result = None
    /\ stderr = <<>>
    /\ steps = <<>>
    /\ cmdline = <<>>
    /\ filesystem = NoFiles
    /\ file_path = None
    /\ base = None
    /\ overrides = None
    /\ merged = None
    /\ env_history = <<>>
    /\ vars_iter = None

load_config_from_env_call ==
    /\ pc = "load_config_from_env"
    /\ \E vars_order \in VarsOrders(environ) :
         result' = Some(load_config_from_env(config, environ, vars_order))
    /\ pc' = "returned"
    /\ UNCHANGED <<inputs, config, stderr, steps, merge_vars, race_vars>>

NextEnv == load_config_from_env_call

SpecEnv == InitEnv /\ [][NextEnv]_vars

\* what the claims about the environment source speak of
EnvReturned == pc = "returned" /\ is_some(result)
EnvStart == IF config = None THEN ExpectedDefaults ELSE config[1]
EnvOut == result[1].val
IsSet(name) == name \in DOMAIN environ

\* the feature key each APP_FEATURES_* variable of these runs stands for
FeatureKeyOf ==
    LowercasedRemainder @@ (APP_FEATURES_CACHE :> <<"c", "a", "c", "h", "e">>)

FeatureVariables(k) == { n \in DOMAIN environ \cap DOMAIN FeatureKeyOf : FeatureKeyOf[n] = k }
IsBooleanText(t) == t \in {<<"t", "r", "u", "e">>, <<"f", "a", "l", "s", "e">>}

(***************************************************************************)
(* C14.  The environment source changes only the fields whose variable is  *)
(* set.                                                                    *)
(***************************************************************************)
\* C14: for every recognized variable that is not set the environment source leaves the field as it was in the configuration it started from (the one passed in, the defaults when none was); with no APP_* variable set its result is that configuration
C14_UnsetVariableLeavesField ==
    (EnvReturned /\ is_ok(result[1])) =>
        /\ ~IsSet(APP_SERVER_HOST) => EnvOut.server.host = EnvStart.server.host
        /\ ~IsSet(APP_SERVER_PORT) => EnvOut.server.port = EnvStart.server.port
        /\ ~IsSet(APP_SERVER_WORKERS) => EnvOut.server.workers = EnvStart.server.workers
        /\ ~IsSet(APP_DATABASE_HOST) => EnvOut.database.host = EnvStart.database.host
        /\ ~IsSet(APP_DATABASE_PORT) => EnvOut.database.port = EnvStart.database.port
        /\ ~IsSet(APP_DATABASE_USERNAME) =>
               EnvOut.database.username = EnvStart.database.username
        /\ ~IsSet(APP_DATABASE_PASSWORD) =>
               EnvOut.database.password = EnvStart.database.password
        /\ ~IsSet(APP_DATABASE_DATABASE) =>
               EnvOut.database.database = EnvStart.database.database
        /\ ~IsSet(APP_DATABASE_MAX_CONNECTIONS) =>
               EnvOut.database.max_connections = EnvStart.database.max_connections
        /\ ~IsSet(APP_LOGGING_LEVEL) => EnvOut.logging.level = EnvStart.logging.level
        /\ ~IsSet(APP_LOGGING_FILE) => EnvOut.logging.file = EnvStart.logging.file
        /\ \A k \in DOMAIN EnvStart.features \cup DOMAIN EnvOut.features :
               FeatureVariables(k) = {} =>
                   /\ k \in DOMAIN EnvStart.features
                   /\ k \in DOMAIN EnvOut.features
                   /\ EnvOut.features[k] = EnvStart.features[k]
        /\ NoAppVariable => result[1] = Ok(EnvStart)

C14_Witness ==
    /\ EnvReturned
    /\ is_ok(result[1])
    /\ config = Some(ConfigFromFile)
    /\ DOMAIN environ = {APP_SERVER_HOST, APP_FEATURES_TELEMETRY}
    /\ EnvOut.server.host = environ[APP_SERVER_HOST]
    /\ EnvOut.server.port = 9000
    /\ EnvOut.logging.file = None

(***************************************************************************)
(* C15.  An integer variable whose text is not an unsigned integer of the  *)
(* field's width ends the environment source with a ParseError.            *)
(***************************************************************************)
DigitValue ==
    ("0" :> 0) @@ ("1" :> 1) @@ ("2" :> 2) @@ ("3" :> 3) @@ ("4" :> 4)
    @@ ("5" :> 5) @@ ("6" :> 6) @@ ("7" :> 7) @@ ("8" :> 8) @@ ("9" :> 9)

RECURSIVE WithoutLeadingZeros(_)
WithoutLeadingZeros(digits) ==
    IF digits # <<>> /\ Head(digits) = "0" THEN WithoutLeadingZeros(Tail(digits))
    ELSE digits

\* a <= b as numbers, for digit texts of one length
RECURSIVE NotAbove(_, _)
NotAbove(a, b) ==
    IF a = <<>> THEN TRUE
    ELSE IF DigitValue[Head(a)] # DigitValue[Head(b)]
    THEN DigitValue[Head(a)] < DigitValue[Head(b)]
    ELSE NotAbove(Tail(a), Tail(b))

\* text is an unsigned decimal number, with an optional "+", that is at most largest
DenotesUnsigned(text, largest) ==
    LET digits == IF text # <<>> /\ Head(text) = "+" THEN Tail(text) ELSE text
        significant == WithoutLeadingZeros(digits)
    IN  /\ digits # <<>>
        /\ \A i \in 1..Len(digits) : digits[i] \in DOMAIN DigitValue
        /\ \/ Len(significant) < Len(largest)
           \/ Len(significant) = Len(largest) /\ NotAbove(significant, largest)

Largest16 == <<"6", "5", "5", "3", "5">>
Largest32 == <<"4", "2", "9", "4", "9", "6", "7", "2", "9", "5">>

\* the integer variables in the order the source reads them
IntegerVariables ==
    << [name |-> APP_SERVER_PORT, largest |-> Largest16,
        message |-> <<"Invalid APP_SERVER_PORT">>],
       [name |-> APP_SERVER_WORKERS, largest |-> Largest32,
        message |-> <<"Invalid APP_SERVER_WORKERS">>],
       [name |-> APP_DATABASE_PORT, largest |-> Largest16,
        message |-> <<"Invalid APP_DATABASE_PORT">>],
       [name |-> APP_DATABASE_MAX_CONNECTIONS, largest |-> Largest32,
        message |-> <<"Invalid APP_DATABASE_MAX_CONNECTIONS">>] >>

\* the integer variables that are set to a text that is not a number of the field
BadIntegerVariables ==
    { i \in DOMAIN IntegerVariables :
        /\ IsSet(IntegerVariables[i].name)
        /\ ~DenotesUnsigned(environ[IntegerVariables[i].name], IntegerVariables[i].largest) }

FirstOf(S) == CHOOSE i \in S : \A j \in S : i <= j

\* C15: when APP_SERVER_PORT, APP_SERVER_WORKERS, APP_DATABASE_PORT or APP_DATABASE_MAX_CONNECTIONS is set to a text that is not an unsigned integer, the environment source returns ParseError("Invalid <VAR_NAME>") naming such a variable (the first one in the order the source reads them, hence that variable when it is the only one) and no configuration, whatever configuration was passed in
C15_BadIntegerVariableIsParseError ==
    (EnvReturned /\ BadIntegerVariables # {}) =>
        /\ result[1] = [ok |-> FALSE, kind |-> "ParseError",
                        msg |-> IntegerVariables[FirstOf(BadIntegerVariables)].message]
        /\ \A i \in DOMAIN IntegerVariables :
               BadIntegerVariables = {i} => result[1].msg = IntegerVariables[i].message

C15_Witness ==
    /\ EnvReturned
    /\ config = Some(ConfigFromFile)
    /\ IsSet(APP_DATABASE_MAX_CONNECTIONS)
    /\ environ[APP_DATABASE_MAX_CONNECTIONS] = <<"1", "e", "3">>
    /\ result[1] = ParseError(<<"Invalid APP_DATABASE_MAX_CONNECTIONS">>)

(***************************************************************************)
(* C16.  A feature variable whose text is not a boolean is passed over.    *)
(***************************************************************************)
\* the keys whose variables all have a text that is not a boolean
KeysOfBadBooleansOnly ==
    { k \in { FeatureKeyOf[n] : n \in DOMAIN environ \cap DOMAIN FeatureKeyOf } :
        \A n \in FeatureVariables(k) : ~IsBooleanText(environ[n]) }

\* C16: an APP_FEATURES_* variable whose text is not a boolean raises no error and does not touch the features map (its key is not added when absent and keeps its value when present), and the other variables are still applied
C16_BadBooleanIsSkipped ==
    (EnvReturned /\ KeysOfBadBooleansOnly # {}) =>
        /\ is_err(result[1]) => BadIntegerVariables # {}
        /\ is_ok(result[1]) =>
               /\ \A k \in KeysOfBadBooleansOnly :
                      IF k \in DOMAIN EnvStart.features
                      THEN /\ k \in DOMAIN EnvOut.features
                           /\ EnvOut.features[k] = EnvStart.features[k]
                      ELSE k \notin DOMAIN EnvOut.features
               /\ IsSet(APP_SERVER_HOST) => EnvOut.server.host = environ[APP_SERVER_HOST]
               /\ IsSet(APP_DATABASE_PASSWORD) =>
                      EnvOut.database.password = environ[APP_DATABASE_PASSWORD]
               /\ IsSet(APP_LOGGING_FILE) =>
                      EnvOut.logging.file = <<environ[APP_LOGGING_FILE]>>
               /\ \A n \in DOMAIN environ \cap DOMAIN FeatureKeyOf :
                      (IsBooleanText(environ[n]) /\ FeatureVariables(FeatureKeyOf[n]) = {n}) =>
                          /\ FeatureKeyOf[n] \in DOMAIN EnvOut.features
                          /\ EnvOut.features[FeatureKeyOf[n]] = (environ[n] = <<"t", "r", "u", "e">>)

C16_Witness ==
    /\ EnvReturned
    /\ is_ok(result[1])
    /\ config = Some(ConfigFromFile)
    /\ IsSet(APP_FEATURES_TELEMETRY)
    /\ ~IsBooleanText(environ[APP_FEATURES_TELEMETRY])
    /\ <<"t", "e", "l", "e", "m", "e", "t", "r", "y">> \notin DOMAIN EnvOut.features
    /\ IsSet(APP_FEATURES_METRICS)
    /\ environ[APP_FEATURES_METRICS] = <<"T", "R", "U", "E">>
    /\ EnvOut.features[<<"m", "e", "t", "r", "i", "c", "s">>] = FALSE

(***************************************************************************)
(* load_config_from_args on its own: cmdline is the command line and one   *)
(* call returns the result, or ends the process when the parser rejects    *)
(* the command line.                                                       *)
(***************************************************************************)
\* more arguments: --config, and texts that are not numbers
ArgSourceBindings ==
    FlagBindings \cup
    { <<"config", Path_c_json>>,
      <<"server-workers", <<"m", "a", "n", "y">>>>,
      <<"database-port", <<"7", "0", "0", "0", "0">>>>,
      <<"database-max-connections", <<"t", "e", "n">>>>,
      <<"database-max-connections", <<"3", ".", "5">>>> }

InitArgs ==
    /\ \E n \in 0..MaxSettings :
         cmdline \in { map_of(S) : S \in Bindable(ArgSourceBindings, n) }
    /\ pc = "load_config_from_args"
    /\ config = None
    /\ result = None
    /\ stderr = <<>>
    /\ steps = <<>>
    /\ filesystem = NoFiles
    /\ environ = <<>>
    /\ file_path = None
    /\ base = None
    /\ overrides = None
    /\ merged = None
    /\ env_history = <<>>
    /\ vars_iter = None

load_config_from_args_call ==
    /\ pc = "load_config_from_args"
    /\ IF exits(load_config_from_args(cmdline))
       THEN /\ pc' = "exited"
            /\ UNCHANGED result
       ELSE /\ result' = Some(load_config_from_args(cmdline))
            /\ pc' = "returned"
    /\ UNCHANGED <<inputs, config, stderr, steps, merge_vars, race_vars>>

NextArgs == load_config_from_args_call

SpecArgs == InitArgs /\ [][NextArgs]_vars

\* what the claims about the argument source speak of
ArgsReturned == pc = "returned" /\ is_some(result)
Given(flag) == flag \in DOMAIN cmdline

(***************************************************************************)
(* C17.  An integer flag whose text is not a number ends the argument      *)
(* source with the ParseError of that flag.                                *)
(***************************************************************************)
\* the integer flags in the order the source reads them, each with its message
IntegerFlags ==
    << [flag |-> "server-port", largest |-> Largest16,
        message |-> <<"Invalid server port">>],
       [flag |-> "server-workers", largest |-> Largest32,
        message |-> <<"Invalid server workers">>],
       [flag |-> "database-port", largest |-> Largest16,
        message |-> <<"Invalid database port">>],
       [flag |-> "database-max-connections", largest |-> Largest32,
        message |-> <<"Invalid max connections">>] >>

BadIntegerFlags ==
    { i \in DOMAIN IntegerFlags :
        /\ Given(IntegerFlags[i].flag)
        /\ ~DenotesUnsigned(cmdline[IntegerFlags[i].flag], IntegerFlags[i].largest) }

\* C17: when --server-port, --server-workers, --database-port or --database-max-connections is given a text that is not a number, the argument source (on a command line its parser accepts) returns a ParseError whose message is the one of a flag that was given a bad value (the first in the order the source reads them, hence that flag when it is the only one) and no configuration
C17_BadIntegerFlagIsParseError ==
    (ArgsReturned /\ BadIntegerFlags # {}) =>
        /\ result[1] = [ok |-> FALSE, kind |-> "ParseError",
                        msg |-> IntegerFlags[FirstOf(BadIntegerFlags)].message]
        /\ \A i \in DOMAIN IntegerFlags :
               BadIntegerFlags = {i} => result[1].msg = IntegerFlags[i].message

C17_Witness ==
    /\ ArgsReturned
    /\ Given("server-workers")
    /\ cmdline["server-workers"] = <<"m", "a", "n", "y">>
    /\ result[1] = ParseError(<<"Invalid server workers">>)

(***************************************************************************)
(* C18.  The configuration the argument source returns: the flag's value   *)
(* where a flag was given, the default elsewhere.                          *)
(***************************************************************************)
RECURSIVE NumberOf(_)
NumberOf(digits) ==
    IF digits = <<>> THEN 0
    ELSE 10 * NumberOf(SubSeq(digits, 1, Len(digits) - 1)) + DigitValue[digits[Len(digits)]]

TextOr(flag, default) == IF Given(flag) THEN cmdline[flag] ELSE default
NumberOr(flag, default) == IF Given(flag) THEN NumberOf(cmdline[flag]) ELSE default
SomeTextOr(flag, default) == IF Given(flag) THEN <<cmdline[flag]>> ELSE default
SomeNumberOr(flag, default) == IF Given(flag) THEN <<NumberOf(cmdline[flag])>> ELSE default

ExpectedFromArgs ==
    [server |-> [host |-> TextOr("server-host", ExpectedDefaults.server.host),
                 port |-> NumberOr("server-port", ExpectedDefaults.server.port),
                 workers |-> SomeNumberOr("server-workers", ExpectedDefaults.server.workers)],
     database |-> [host |-> TextOr("database-host", ExpectedDefaults.database.host),
                   port |-> NumberOr("database-port", ExpectedDefaults.database.port),
                   username |-> TextOr("database-username",
                                       ExpectedDefaults.database.username),
                   password |-> TextOr("database-password",
                                       ExpectedDefaults.database.password),
                   database |-> TextOr("database-name", ExpectedDefaults.database.database),
                   max_connections |->
                       SomeNumberOr("database-max-connections",
                                    ExpectedDefaults.database.max_connections)],
     logging |-> [level |-> TextOr("logging-level", ExpectedDefaults.logging.level),
                  file |-> SomeTextOr("logging-file", ExpectedDefaults.logging.file)],
     features |-> ExpectedDefaults.features]

\* C18: the configuration the argument source returns has, for each of the eleven field flags, the flag's value when the flag was given and the default otherwise; --config changes no field
C18_ArgsResultIsFlagsOverDefaults ==
    (ArgsReturned /\ is_ok(result[1])) => result[1].val = ExpectedFromArgs

C18_Witness ==
    /\ ArgsReturned
    /\ is_ok(result[1])
    /\ Given("config")
    /\ Given("logging-file")
    /\ result[1].val.logging.file = <<cmdline["logging-file"]>>
    /\ result[1].val.server.port = 8080

(***************************************************************************)
(* detect_format_from_extension on its own: file_path is drawn from the    *)
(* paths below (a directory part, a stem, an extension and an optional     *)
(* trailing "/", and a few paths without a file name) and one call returns *)
(* the format.                                                             *)
(***************************************************************************)
PathDirectories == { <<>>, <<"/", "e", "t", "c", "/">>, <<"d", ".", "t", "o", "m", "l", "/">> }
PathStems == { <<>>, <<"c">>, <<"a", ".", "j", "s", "o", "n">> }
PathExtensions ==
    { <<>>, <<".">>,
      <<".", "t", "o", "m", "l">>, <<".", "T", "O", "M", "L">>, <<".", "T", "o", "m", "l">>,
      <<".", "j", "s", "o", "n">>, <<".", "J", "S", "O", "N">>,
      <<".", "y", "a", "m", "l">>, <<".", "Y", "A", "M", "L">>,
      <<".", "y", "m", "l">>, <<".", "Y", "m", "l">>,
      <<".", "t", "x", "t">>, <<".", "i", "n", "i">>, <<".", "t", "o", "m", "l", "x">>,
      <<".", "t", "o", "m", "l", ".", "b", "a", "k">>, <<".", "y", "m">> }
PathEndings == { <<>>, <<"/">> }

\* a path that ends in a "." component names the component before it; none is drawn
DetectorPaths ==
    { dir \o stem \o ext \o ending :
        dir \in PathDirectories, stem \in PathStems, ext \in PathExtensions,
        ending \in PathEndings }
    \ { dir \o <<".">> \o ending : dir \in PathDirectories \ {<<>>}, ending \in PathEndings }

InitDetect ==
    /\ file_path \in { Some(path) : path \in DetectorPaths }
    /\ pc = "detect_format_from_extension"
    /\ config = None
    /\ result = None
    /\ stderr = <<>>
    /\ steps = <<>>
    /\ cmdline = <<>>
    /\ filesystem = NoFiles
    /\ environ = <<>>
    /\ base = None
    /\ overrides = None
    /\ merged = None
    /\ env_history = <<>>
    /\ vars_iter = None

detect_format_from_extension_call ==
    /\ pc = "detect_format_from_extension"
    /\ result' = Some(detect_format_from_extension(unwrap(file_path)))
    /\ pc' = "returned"
    /\ UNCHANGED <<inputs, config, stderr, steps, merge_vars, race_vars>>

NextDetect == detect_format_from_extension_call

SpecDetect == InitDetect /\ [][NextDetect]_vars

(***************************************************************************)
(* C19.  The format is decided by the final extension of the path alone,   *)
(* whatever its letter case.                                               *)
(***************************************************************************)
\* the file name of a path: what stands between its last "/" and its end, trailing "/" aside
NameEnd(path) ==
    IF \E i \in 1..Len(path) : path[i] # "/"
    THEN CHOOSE i \in 1..Len(path) :
             path[i] # "/" /\ \A j \in (i + 1)..Len(path) : path[j] = "/"
    ELSE 0

NameStart(path) ==
    CHOOSE i \in 1..(NameEnd(path) + 1) :
        /\ \A j \in i..NameEnd(path) : path[j] # "/"
        /\ i = 1 \/ path[i - 1] = "/"

NameOf(path) == SubSeq(path, NameStart(path), NameEnd(path))

\* the name has a final extension: a "." that is not its first character
HasFinalExtension(path) == \E i \in 2..Len(NameOf(path)) : NameOf(path)[i] = "."

FinalExtension(path) ==
    LET name == NameOf(path)
        dot == CHOOSE i \in 2..Len(name) :
                   name[i] = "." /\ \A j \in (i + 1)..Len(name) : name[j] # "."
    IN  SubSeq(name, dot + 1, Len(name))

CapitalOf ==
    ("a" :> "A") @@ ("j" :> "J") @@ ("l" :> "L") @@ ("m" :> "M") @@ ("n" :> "N")
    @@ ("o" :> "O") @@ ("s" :> "S") @@ ("t" :> "T") @@ ("y" :> "Y")

\* text is word in some letter case
Spells(text, word) ==
    /\ Len(text) = Len(word)
    /\ \A i \in 1..Len(word) : text[i] = word[i] \/ text[i] = CapitalOf[word[i]]

ExpectedFormat(path) ==
    IF ~HasFinalExtension(path) THEN <<>>
    ELSE IF Spells(FinalExtension(path), <<"t", "o", "m", "l">>) THEN <<"Toml">>
    ELSE IF Spells(FinalExtension(path), <<"j", "s", "o", "n">>) THEN <<"Json">>
    ELSE IF Spells(FinalExtension(path), <<"y", "a", "m", "l">>) THEN <<"Yaml">>
    ELSE IF Spells(FinalExtension(path), <<"y", "m", "l">>) THEN <<"Yaml">>
    ELSE <<>>

\* C19: the format detector decides by the final extension of the path alone, in any letter case: toml gives TOML, json gives JSON, yaml and yml give YAML, and every other extension and a path without extension give no format
C19_FormatByFinalExtension ==
    (pc = "returned" /\ is_some(file_path)) => result[1] = ExpectedFormat(file_path[1])

C19_Witness ==
    /\ pc = "returned"
    /\ file_path = Some(<<"d", ".", "t", "o", "m", "l", "/", "a", ".", "j", "s", "o", "n",
                          ".", "Y", "m", "l">>)
    /\ result = Some(Some("Yaml"))

(***************************************************************************)
(* load_config_from_file on its own: file_path is the path given, the file *)
(* system has a file at that path or none, and one call returns the        *)
(* result.                                                                 *)
(***************************************************************************)
FileSourcePaths ==
    { Path_c_json, Path_c_TOML, Path_c_yml, Path_c_txt,
      <<"c">>, <<".", "t", "o", "m", "l">>, <<"c", ".", "Y", "A", "M", "L">>,
      <<"d", ".", "j", "s", "o", "n", "/", "c">>, <<"c", ".", "j", "s", "o", "n", ".", "b", "a", "k">> }

\* TreeRequired without one of its keys
TreesWithoutOneKey ==
    { [k \in DOMAIN TreeRequired \ {key} |-> TreeRequired[k]] : key \in DOMAIN TreeRequired }

\* TreeFull with some of its optional keys only
TreesWithSomeOptionalKeys ==
    { [k \in DOMAIN TreeRequired \cup kept |-> TreeFull[k]] :
        kept \in SUBSET {"server.workers", "database.max_connections", "logging.file"} }

FileSourceFiles ==
    { File(readable, Document(wellformed, tree)) :
        readable \in BOOLEAN, wellformed \in BOOLEAN,
        tree \in {TreeRequired, TreeFull, TreeUpper} \cup TreesWithoutOneKey
                    \cup TreesWithSomeOptionalKeys }

InitFile ==
    /\ file_path \in { Some(path) : path \in FileSourcePaths }
    /\ \/ filesystem = NoFiles
       \/ \E file \in FileSourceFiles : filesystem = (unwrap(file_path) :> file)
    /\ pc = "load_config_from_file"
    /\ config = None
    /\ result = None
    /\ stderr = <<>>
    /\ steps = <<>>
    /\ cmdline = <<>>
    /\ environ = <<>>
    /\ base = None
    /\ overrides = None
    /\ merged = None
    /\ env_history = <<>>
    /\ vars_iter = None

load_config_from_file_call ==
    /\ pc = "load_config_from_file"
    /\ result' = Some(load_config_from_file(filesystem, unwrap(file_path)))
    /\ pc' = "returned"
    /\ UNCHANGED <<inputs, config, stderr, steps, merge_vars, race_vars>>

NextFile == load_config_from_file_call

SpecFile == InitFile /\ [][NextFile]_vars

(***************************************************************************)
(* C20.  The checks of the file source, in order: the path exists, its     *)
(* format is recognized, the file can be read, its contents decode.        *)
(***************************************************************************)
FileReturned == pc = "returned" /\ is_some(file_path) /\ is_some(result)
PathExists == file_path[1] \in DOMAIN filesystem
FormatRecognized == ExpectedFormat(file_path[1]) # <<>>
FileAtPath == filesystem[file_path[1]]

KeysEveryFileNeeds ==
    {"server.host", "server.port", "database.host", "database.port", "database.username",
     "database.password", "database.database", "logging.level", "features"}

Decodes(contents) == contents.wellformed /\ KeysEveryFileNeeds \subseteq DOMAIN contents.tree

\* the outcome of the file source when the message of an unrecognized format is unsupported
FirstFailureReported(unsupported) ==
    FileReturned =>
        IF ~PathExists
        THEN result[1] = [ok |-> FALSE, kind |-> "FileNotFound", msg |-> file_path[1]]
        ELSE IF ~FormatRecognized
        THEN result[1] = [ok |-> FALSE, kind |-> "ParseError", msg |-> <<unsupported>>]
        ELSE IF ~FileAtPath.readable
        THEN is_err(result[1]) /\ result[1].kind = "IoError"
        ELSE IF ~Decodes(FileAtPath.contents)
        THEN is_err(result[1]) /\ result[1].kind = "ParseError"
        ELSE is_ok(result[1])

\* C20 as stated: the file source reports the first failure of: the path does not exist, FileNotFound (also when the extension is unrecognized); the extension is unrecognized, ParseError("unsupported file format"), the file not being read; the read fails, IoError; the contents do not decode, a missing required field included, ParseError
C20_FirstFailureLowercaseMessage == FirstFailureReported("unsupported file format")

\* C20 (amended): the same order of checks and the same errors, the message of an unrecognized extension being ParseError("Unsupported file format"), with a capital U
C20_FirstFailureReported == FirstFailureReported("Unsupported file format")

C20_Witness ==
    /\ FileReturned
    /\ file_path[1] = <<"c", ".", "t", "x", "t">>
    /\ PathExists
    /\ ~FileAtPath.readable
    /\ result[1] = ParseError(<<"Unsupported file format">>)

(***************************************************************************)
(* C21.  An optional key the file does not give is absent from the file    *)
(* source's configuration.                                                 *)
(***************************************************************************)
FileTreeAtPath == FileAtPath.contents.tree
FileOut == result[1].val

\* the field of an optional key: absent when the file lacks the key, the file's value otherwise
AsFileGives(key, field) ==
    IF key \in DOMAIN FileTreeAtPath THEN field = <<FileTreeAtPath[key]>> ELSE field = <<>>

\* C21: when the file omits server.workers, database.max_connections or logging.file, the configuration the file source returns has that field absent (None), not the default; a key the file gives is present with the file's value
C21_OmittedOptionalStaysAbsent ==
    (FileReturned /\ is_ok(result[1])) =>
        /\ AsFileGives("server.workers", FileOut.server.workers)
        /\ AsFileGives("database.max_connections", FileOut.database.max_connections)
        /\ AsFileGives("logging.file", FileOut.logging.file)

C21_Witness ==
    /\ FileReturned
    /\ is_ok(result[1])
    /\ DOMAIN FileTreeAtPath \cap {"server.workers", "database.max_connections", "logging.file"}
           = {"server.workers"}
    /\ FileOut.server.workers = <<16>>
    /\ FileOut.database.max_connections = <<>>
    /\ FileOut.logging.file = <<>>

(***************************************************************************)
(* C22.  How a failure of the loader reaches the caller.                   *)
(***************************************************************************)
ErrorValues == {"FileNotFound", "IoError", "ParseError", "ValidationError"}

\* C22: every failure of the loader reaches the caller of the orchestrator as one of the error values FileNotFound, IoError, ParseError or ValidationError; no step runs twice, and no source ends the process or the load in another way, a command line that cannot be parsed included
C22_EveryFailureIsAnErrorValue ==
    /\ pc # "exited"
    /\ ReturnedErr => unwrap(result).kind \in ErrorValues
    /\ \A i, j \in 1..Len(steps) : steps[i] = steps[j] => i = j

(***************************************************************************)
(* load_config_from_env read by read, with another thread of the process   *)
(* changing the environment meanwhile.  The function reads the environment *)
(* with one env::var per recognized variable, in the order of the source,  *)
(* then with env::vars(), which yields the names of the environment as it  *)
(* is at that moment, and then with one env::var per name that starts with *)
(* APP_FEATURES_.  Each read takes the environment lock, so a read sees    *)
(* one state of the environment, and set_var or remove_var of the other    *)
(* thread falls between two reads.  config is the function's local         *)
(* configuration, steps the names read so far.                             *)
(***************************************************************************)
\* at most this many changes of the environment fall into one call
MaxEnvChanges == 2

\* the variables read with env::var, in the order of the source
EnvVarReads ==
    << APP_SERVER_HOST, APP_SERVER_PORT, APP_SERVER_WORKERS, APP_DATABASE_HOST,
       APP_DATABASE_PORT, APP_DATABASE_USERNAME, APP_DATABASE_PASSWORD,
       APP_DATABASE_DATABASE, APP_DATABASE_MAX_CONNECTIONS, APP_LOGGING_LEVEL,
       APP_LOGGING_FILE >>

\* what one env::var sees of an environment: the variable it asks for
only(environment, name) == [n \in DOMAIN environment \cap {name} |-> environment[n]]

\* the read of one variable: the statement of its section that asks for it
env_var_step(current, name, environment) ==
    IF name \in {APP_SERVER_HOST, APP_SERVER_PORT, APP_SERVER_WORKERS}
    THEN env_server(current, only(environment, name))
    ELSE IF name \in {APP_LOGGING_LEVEL, APP_LOGGING_FILE}
    THEN Ok(env_logging(current, only(environment, name)))
    ELSE env_database(current, only(environment, name))

\* one turn of the loop over the iterator: the value is read when the name comes up
env_feature_step(current, key, environment) ==
    IF key \in DOMAIN environment
    THEN [current EXCEPT !.features = env_feature(current.features, key, environment[key])]
    ELSE current

\* what the other thread sets
OtherThreadBindings ==
    { <<APP_SERVER_HOST, <<"e", "h">>>>,
      <<APP_SERVER_PORT, <<"9", "1", "0", "0">>>>,
      <<APP_SERVER_PORT, <<"a", "b", "c">>>>,
      <<APP_LOGGING_LEVEL, Str_error>>,
      <<APP_FEATURES_METRICS, Str_false>> }

RaceEnvironments ==
    { <<>>,
      (APP_SERVER_HOST :> <<"h", "0">>),
      (APP_LOGGING_LEVEL :> Str_debug) @@ (APP_FEATURES_METRICS :> Str_true) }

InitRace ==
    /\ environ \in RaceEnvironments
    /\ env_history = <<environ>>
    /\ vars_iter = None
    /\ config = Some(create_default_config)
    /\ pc = "reading"
    /\ steps = <<>>
    /\ result = None
    /\ stderr = <<>>
    /\ cmdline = <<>>
    /\ filesystem = NoFiles
    /\ file_path = None
    /\ base = None
    /\ overrides = None
    /\ merged = None

env_var_read ==
    /\ pc = "reading"
    /\ Len(steps) < Len(EnvVarReads)
    /\ LET name == EnvVarReads[Len(steps) + 1]
           read == env_var_step(unwrap(config), name, environ)
       IN  /\ steps' = Append(steps, name)
           /\ IF is_err(read)
              THEN /\ result' = Some(read)
                   /\ pc' = "returned"
                   /\ UNCHANGED config
              ELSE /\ config' = Some(read.val)
                   /\ UNCHANGED <<result, pc>>
    /\ UNCHANGED <<cmdline, filesystem, environ, file_path, stderr, merge_vars, race_vars>>

env_vars_call ==
    /\ pc = "reading"
    /\ Len(steps) = Len(EnvVarReads)
    /\ vars_iter = None
    /\ \E vars_order \in VarsOrders(environ) : vars_iter' = Some(vars_order)
    /\ steps' = Append(steps, APP_FEATURES_)
    /\ UNCHANGED <<cmdline, filesystem, environ, file_path, pc, config, result, stderr,
                   merge_vars, env_history>>

env_feature_read ==
    /\ pc = "reading"
    /\ is_some(vars_iter)
    /\ unwrap(vars_iter) # <<>>
    /\ config' = Some(env_feature_step(unwrap(config), Head(unwrap(vars_iter)), environ))
    /\ vars_iter' = Some(Tail(unwrap(vars_iter)))
    /\ steps' = Append(steps, Head(unwrap(vars_iter)))
    /\ UNCHANGED <<cmdline, filesystem, environ, file_path, pc, result, stderr, merge_vars,
                   env_history>>

load_config_from_env_return ==
    /\ pc = "reading"
    /\ vars_iter = Some(<<>>)
    /\ result' = Some(Ok(unwrap(config)))
    /\ pc' = "returned"
    /\ UNCHANGED <<cmdline, filesystem, environ, file_path, config, stderr, steps,
                   merge_vars, race_vars>>

other_thread_set_var ==
    /\ pc = "reading"
    /\ Len(env_history) <= MaxEnvChanges
    /\ \E binding \in OtherThreadBindings :
         /\ environ' = (binding[1] :> binding[2]) @@ environ
         /\ environ' # environ
    /\ env_history' = Append(env_history, environ')
    /\ UNCHANGED <<cmdline, filesystem, file_path, pc, config, result, stderr, steps,
                   merge_vars, vars_iter>>

other_thread_remove_var ==
    /\ pc = "reading"
    /\ Len(env_history) <= MaxEnvChanges
    /\ \E name \in DOMAIN environ :
         environ' = [n \in DOMAIN environ \ {name} |-> environ[n]]
    /\ env_history' = Append(env_history, environ')
    /\ UNCHANGED <<cmdline, filesystem, file_path, pc, config, result, stderr, steps,
                   merge_vars, vars_iter>>

NextRace ==
    \/ env_var_read
    \/ env_vars_call
    \/ env_feature_read
    \/ load_config_from_env_return
    \/ other_thread_set_var
    \/ other_thread_remove_var

SpecRace == InitRace /\ [][NextRace]_vars

(***************************************************************************)
(* C23.  The configuration of one call and the states of the environment   *)
(* during the call.                                                        *)
(***************************************************************************)
\* what the call returns when it reads nothing but the environment state
FromSnapshot(environment) ==
    { load_config_from_env(None, environment, vars_order) :
        vars_order \in VarsOrders(environment) }

\* C23: one call of the environment source reads the environment once, as a snapshot: when another actor changes, adds or removes APP_* variables while the call runs, what the call returns is still what one state of the environment during the call gives, every field and every feature from the same state
C23_ResultFromOneSnapshot ==
    (pc = "returned" /\ env_history # <<>>) =>
        \E i \in 1..Len(env_history) : result[1] \in FromSnapshot(env_history[i])

(***************************************************************************)
(* C24.  A port that is a number but does not fit sixteen bits.            *)
(***************************************************************************)
\* the text is a decimal numeral above 65535
AboveSixteenBits(text) ==
    /\ text # <<>>
    /\ \A i \in 1..Len(text) : text[i] \in DOMAIN DigitValue
    /\ ~DenotesUnsigned(text, Largest16)

PortVariables == {APP_SERVER_PORT, APP_DATABASE_PORT}
PortFlags == {"server-port", "database-port"}

PortVariableAboveSixteenBits ==
    \E name \in PortVariables : IsSet(name) /\ AboveSixteenBits(environ[name])
PortFlagAboveSixteenBits ==
    \E flag \in PortFlags : Given(flag) /\ AboveSixteenBits(cmdline[flag])

Ran(step) == \E i \in 1..Len(steps) : steps[i] = step

\* C24: a port that is numeric but outside sixteen bits (65536, 70000), given through APP_SERVER_PORT, APP_DATABASE_PORT, --server-port or --database-port, is rejected by the source that reads it with a ParseError; it is never wrapped or truncated into a port, so no load that was given one returns a configuration
C24_OutOfRangePortRejected ==
    /\ (PortVariableAboveSixteenBits /\ Ran("env")) =>
          /\ ReturnedErr
          /\ last_step = "env"
          /\ unwrap(result).kind = "ParseError"
    /\ (PortFlagAboveSixteenBits /\ Ran("args") /\ pc # "exited") =>
          /\ ReturnedErr
          /\ last_step = "args"
          /\ unwrap(result).kind = "ParseError"
    /\ (PortVariableAboveSixteenBits \/ PortFlagAboveSixteenBits) => ~ReturnedOk

C24_Witness ==
    /\ ReturnedErr
    /\ last_step = "env"
    /\ IsSet(APP_DATABASE_PORT)
    /\ environ[APP_DATABASE_PORT] = <<"7", "0", "0", "0", "0">>
    /\ unwrap(result).kind = "ParseError"

(***************************************************************************)
(* C25.  Several violations at once: the validator reports the first in    *)
(* its order and leaves the configuration as it was.                       *)
(***************************************************************************)
\* the checks in the order of the specification, each with its message
ChecksInOrder(c) ==
    << [violated |-> c.server.host = Str_empty,
        message |-> <<"Server host cannot be empty">>],
       [violated |-> c.server.port = 0,
        message |-> <<"Server port must be greater than 0">>],
       [violated |-> c.server.workers = <<0>>,
        message |-> <<"Server workers must be greater than 0">>],
       [violated |-> c.database.host = Str_empty,
        message |-> <<"Database host cannot be empty">>],
       [violated |-> c.database.port = 0,
        message |-> <<"Database port must be greater than 0">>],
       [violated |-> c.database.username = Str_empty,
        message |-> <<"Database username cannot be empty">>],
       [violated |-> c.database.database = Str_empty,
        message |-> <<"Database name cannot be empty">>],
       [violated |-> c.database.max_connections = <<0>>,
        message |-> <<"Database max connections must be greater than 0">>],
       [violated |-> c.logging.level \notin RecognizedLevels,
        message |-> <<"Invalid logging level: ">> \o c.logging.level] >>

ViolatedChecks(c) == { i \in 1..Len(ChecksInOrder(c)) : ChecksInOrder(c)[i].violated }

FirstViolated(c) ==
    CHOOSE i \in ViolatedChecks(c) : \A j \in ViolatedChecks(c) : i <= j

\* C25: when a configuration violates several checks, the validator returns exactly one ValidationError, that of the first violated check in the order server.host, server.port, server.workers, database.host, database.port, database.username, database.database, database.max_connections, logging.level; and the validator does not modify the configuration
C25_FirstViolationReportedConfigUntouched ==
    [][(pc = "validate_config" /\ pc' = "returned") =>
          /\ config' = config
          /\ ViolatedChecks(unwrap(config)) # {} =>
                /\ is_err(unwrap(result'))
                /\ unwrap(result').kind = "ValidationError"
                /\ unwrap(result').msg =
                      ChecksInOrder(unwrap(config))[FirstViolated(unwrap(config))].message]_vars

C25_Witness ==
    /\ pc = "returned"
    /\ Cardinality(ViolatedChecks(unwrap(config))) >= 3
    /\ FirstViolated(unwrap(config)) = 2
    /\ is_err(unwrap(result))
    /\ unwrap(result).msg = <<"Server port must be greater than 0">>

(***************************************************************************)
(* merge_configs applied to three configurations in both groupings: base,  *)
(* overrides and config hold the three, merged the result of merging the   *)
(* first two and then the third, result that of merging the first with     *)
(* the merge of the other two.                                             *)
(***************************************************************************)
\* three settings of the required scalar fields that differ in every field
ThreeRequiredSettings ==
    RequiredSettings \cup
    { [server_host |-> <<"g", "h">>, server_port |-> 7000,
       database_host |-> <<"g", "d", "b">>, database_port |-> 5434,
       username |-> <<"g", "u">>, password |-> <<"g", "p">>, database |-> <<"g", "d">>,
       level |-> Str_debug] }

\* which optional fields a configuration has
OptionalPatterns ==
    { [workers |-> FALSE, max_connections |-> FALSE, file |-> FALSE],
      [workers |-> TRUE, max_connections |-> TRUE, file |-> TRUE],
      [workers |-> TRUE, max_connections |-> FALSE, file |-> FALSE],
      [workers |-> FALSE, max_connections |-> TRUE, file |-> TRUE] }

GroupingConfigs ==
    { AppConfig(ServerConfig(r.server_host, r.server_port,
                             IF present.workers
                             THEN Some(r.server_port \div 1000) ELSE None),
                DatabaseConfig(r.database_host, r.database_port, r.username, r.password,
                               r.database,
                               IF present.max_connections
                               THEN Some(r.database_port \div 100) ELSE None),
                LoggingConfig(r.level,
                              IF present.file
                              THEN Some(r.server_host \o <<".", "l", "o", "g">>)
                              ELSE None),
                features) :
        r \in ThreeRequiredSettings,
        present \in OptionalPatterns,
        features \in FeatureMaps(1) }

InitGrouping ==
    /\ base \in { Some(c) : c \in GroupingConfigs }
    /\ overrides \in { Some(c) : c \in GroupingConfigs }
    /\ config \in { Some(c) : c \in GroupingConfigs }
    /\ merged = None
    /\ result = None
    /\ pc = "merge"
    /\ env_history = <<>>
    /\ vars_iter = None
    /\ stderr = <<>>
    /\ steps = <<>>
    /\ cmdline = <<>>
    /\ filesystem = NoFiles
    /\ environ = <<>>
    /\ file_path = None

merge_first_two_then_third ==
    /\ pc = "merge"
    /\ merged' = Some(merge_configs(merge_configs(unwrap(base), unwrap(overrides)),
                                    unwrap(config)))
    /\ pc' = "merged"
    /\ UNCHANGED <<inputs, config, result, stderr, steps, base, overrides, race_vars>>

merge_first_with_other_two ==
    /\ pc = "merged"
    /\ result' = Some(Ok(merge_configs(unwrap(base),
                                       merge_configs(unwrap(overrides), unwrap(config)))))
    /\ pc' = "returned"
    /\ UNCHANGED <<inputs, config, stderr, steps, merge_vars, race_vars>>

NextGrouping ==
    \/ merge_first_two_then_third
    \/ merge_first_with_other_two

SpecGrouping == InitGrouping /\ [][NextGrouping]_vars

(***************************************************************************)
(* C26.  The grouping of merges does not matter.                           *)
(***************************************************************************)
\* C26: merging is associative: for configurations a, b, c, merging a with b and the result with c gives the same configuration as merging a with the merge of b and c, on every required field, every optional field and the features map
C26_MergeAssociative ==
    pc = "returned" =>
        /\ unwrap(merged).server = unwrap(result).val.server
        /\ unwrap(merged).database = unwrap(result).val.database
        /\ unwrap(merged).logging = unwrap(result).val.logging
        /\ unwrap(merged).features = unwrap(result).val.features

\* three different configurations, the optional fields and a feature key present in the first and third only
C26_Witness ==
    /\ pc = "returned"
    /\ unwrap(base).server.host # unwrap(overrides).server.host
    /\ unwrap(overrides).server.host # unwrap(config).server.host
    /\ unwrap(base).server.host # unwrap(config).server.host
    /\ is_some(unwrap(base).server.workers)
    /\ unwrap(overrides).server.workers = None
    /\ is_some(unwrap(config).logging.file)
    /\ DOMAIN unwrap(base).features = {Str_metrics}
    /\ DOMAIN unwrap(overrides).features = {}
    /\ DOMAIN unwrap(config).features = {Str_metrics}
    /\ unwrap(base).features # unwrap(config).features
    /\ unwrap(merged).features = unwrap(config).features

(***************************************************************************)
(* C27.  The optional fields and the default feature keys stay present     *)
(* along the pipeline.                                                     *)
(***************************************************************************)
DefaultFeatureKeys == {Str_debug_mode, Str_metrics, Str_cache}

OptionalsAndDefaultKeysPresent(c) ==
    /\ c.server.workers # None
    /\ c.database.max_connections # None
    /\ c.logging.file # None
    /\ DefaultFeatureKeys \subseteq DOMAIN c.features

\* C27: the pipeline starts from the defaults, where the three optional fields are present, and no step turns a present optional field into an absent one, so the configuration of every step and every configuration the pipeline returns has server.workers, database.max_connections and logging.file present, also when the file omits them, and its features map contains the keys debug_mode, metrics and cache
C27_OptionalsAlwaysPresent ==
    /\ is_some(config) => OptionalsAndDefaultKeysPresent(unwrap(config))
    /\ ReturnedOk => OptionalsAndDefaultKeysPresent(final)

C27_Witness ==
    /\ ReturnedOk
    /\ FileGiven
    /\ is_ok(file_result)
    /\ file_result.val.server.workers = None
    /\ file_result.val.database.max_connections = None
    /\ file_result.val.logging.file = None
    /\ ~(DefaultFeatureKeys \subseteq DOMAIN file_result.val.features)
    /\ OptionalsAndDefaultKeysPresent(final)

(***************************************************************************)
(* C28.  Values of the environment that violate the invariants: the        *)
(* environment source stores them, the validation step is to reject them.  *)
(***************************************************************************)
IntegerVariableNames ==
    {APP_SERVER_PORT, APP_SERVER_WORKERS, APP_DATABASE_PORT, APP_DATABASE_MAX_CONNECTIONS}

\* the environment sets the server host to the empty text or an integer variable to 0
EnvironmentViolatesInvariant ==
    \/ IsSet(APP_SERVER_HOST) /\ environ[APP_SERVER_HOST] = Str_empty
    \/ \E name \in IntegerVariableNames : IsSet(name) /\ environ[name] = <<"0">>

\* the environment source has returned a configuration
EnvSourceSucceeded == Ran("env") /\ ~(Returned /\ last_step = "env")

\* C28: the environment source accepts values that violate the invariants: APP_SERVER_HOST set to the empty text, or an integer variable set to 0, is stored by the environment source without error, and the load then fails at the validation step, and only there, with a ValidationError, never with a ParseError and never by keeping the previous value
C28_EnvViolationFailsAtValidation ==
    /\ (pc = "args" /\ IsSet(APP_SERVER_HOST) /\ environ[APP_SERVER_HOST] = Str_empty) =>
          unwrap(config).server.host = Str_empty
    /\ (pc = "args" /\ IsSet(APP_DATABASE_MAX_CONNECTIONS)
          /\ environ[APP_DATABASE_MAX_CONNECTIONS] = <<"0">>) =>
          unwrap(config).database.max_connections = <<0>>
    /\ (EnvironmentViolatesInvariant /\ EnvSourceSucceeded /\ Ran("validate") /\ Returned) =>
          /\ ReturnedErr
          /\ last_step = "validate"
          /\ unwrap(result).kind = "ValidationError"
=============================================================================
